---- MODULE Spec2Model ----
(***************************************************************************)
(* A model of the LinkForty Expo SDK's attribution and delivery pipeline:  *)
(* the offline event queue (EventQueue), the event dispatcher              *)
(* (EventTracker), the transport (NetworkManager), the attribution         *)
(* coordinator (AttributionManager), the deep-link dispatcher              *)
(* (DeepLinkHandler) and the facade (LinkFortySDK).                        *)
(*                                                                         *)
(* Nine specifications share the module's variables:                       *)
(*   SpecQueue   calls on one EventQueue over AsyncStorage;                *)
(*   SpecTracker calls on an EventTracker and its EventQueue;              *)
(*   SpecNet     one NetworkManager.request, attempt by attempt;           *)
(*   SpecAttr    AttributionManager.reportInstall / clearData on the       *)
(*               persisted attribution keys;                               *)
(*   SpecLink    one DeepLinkHandler and the resolutions it starts;        *)
(*   SpecSdk     the facade LinkFortySDK over all of them;                 *)
(*   SpecOverlap one EventQueue, await by await;                           *)
(*   SpecFlush   one EventTracker, await by await;                         *)
(*   SpecInit    initialize and reset of the facade, await by await.       *)
(* In SpecQueue and SpecTracker every call runs to completion before the   *)
(* next one starts.                                                        *)
(* Each specification leaves the variables it does not use at their        *)
(* initial values.                                                         *)
(***************************************************************************)
EXTENDS Integers, Sequences, FiniteSets, TLC

VARIABLES
    \* ---- EventQueue / EventTracker (Spec)
    queue,          \* EventQueue.queue: the in-memory list of EventRequest
    loaded,         \* EventQueue.loaded
    stored,         \* AsyncStorage[STORAGE_KEYS.EVENT_QUEUE]
    cachedInstallId,\* what storage.getInstallId() returns to the tracker
    clock,          \* the timestamp the next created EventRequest gets
    last,           \* the last settled call: what it was given (budget: the
                    \* sends of its flush), what it found (pre: the queue
                    \* once loaded) and what it did
    base,           \* ghost: the queue as the last load / clear left it
    enqLog,         \* ghost: records accepted by enqueue since then, in order
    deqLog,         \* ghost: records returned by dequeue since then, in order
    steps,          \* number of calls made so far
    faults          \* number of calls during which AsyncStorage failed

VARIABLES
    \* ---- NetworkManager.request (SpecNet)
    netPc,          \* where the request is: idle, attempt, delay, done
    attempt,        \* the loop variable of request
    lastError,      \* request's lastError
    fetches,        \* the responses fetch gave to this request, in order
    delays,         \* the backoff delays this request waited, in ms, in order
    netResult       \* how the request settled: the body or the failure

VARIABLES
    \* ---- AttributionManager over StorageManager (SpecAttr)
    stInstallId,    \* AsyncStorage under INSTALL_ID: NullId or the id
    stInstallData,  \* AsyncStorage under INSTALL_DATA: a document
    stLaunched,     \* whether AsyncStorage holds the FIRST_LAUNCH flag
    posts,          \* POST /api/sdk/v1/install requests issued so far
    collects,       \* fingerprint.collect calls so far
    attrLast,       \* the last attribution call: its inputs and its result
    firstCall,      \* the first-launch call made on this storage, if any
    launches        \* attribution calls so far

VARIABLES
    \* ---- DeepLinkHandler (SpecLink)
    deferredCallbacks,   \* this.deferredCallbacks: registrations, in order
    deepLinkCallbacks,   \* this.deepLinkCallbacks: registrations, in order
    deferredDelivered,   \* this.deferredDelivered
    cachedDeferredData,  \* this.cachedDeferredData
    pending,             \* resolutions in flight, in the order they started
    calls,               \* every callback invocation so far, in order
    linkLast,            \* the last operation of the handler
    nextReg,             \* the number the next registration gets
    clearedAt,           \* nextReg and Len(calls) at the last clearCallbacks
    linkOps              \* operations so far

VARIABLES
    \* ---- LinkFortySDKClass (SpecSdk)
    sdkInit,        \* this._isInitialized
    sdkConfig,      \* this.config: NullConfig or the accepted configuration
    sdkNetwork,     \* whether this.networkManager is set
    sdkAttribution, \* whether this.attributionManager is set
    sdkHandler,     \* whether this.deepLinkHandler is set
    sdkTracker,     \* whether this.eventTracker is set
    inits,          \* initialize calls in flight: where each one is
    clearing,       \* clearData calls in flight: where each one is
    handlerGen,     \* how many DeepLinkHandler objects were created
    listeners,      \* the handlers whose URL subscription is active
    sdkLast,        \* the last call the facade settled itself
    sdkOps          \* facade calls so far

VARIABLES
    \* ---- EventQueue, call by call and await by await (SpecOverlap)
    ops,            \* the calls in flight on the instance: where each one is
    reads,          \* AsyncStorage.getItem calls made by the instance
    readFailed,     \* whether a getItem of the instance was rejected
    writeFailed,    \* whether a setItem of the instance was rejected
    cleared,        \* ghost: whether clear() was called, and the records
                    \* the document held when it last was
    sent            \* ghost: the records the tracker sent successfully, in
                    \* order (SpecFlush)

qvars == <<queue, loaded, stored, cachedInstallId, clock, last, base, enqLog,
           deqLog, steps, faults>>

nvars == <<netPc, attempt, lastError, fetches, delays, netResult>>

avars == <<stInstallId, stInstallData, stLaunched, posts, collects, attrLast,
           firstCall, launches>>

lvars == <<deferredCallbacks, deepLinkCallbacks, deferredDelivered,
           cachedDeferredData, pending, calls, linkLast, nextReg, clearedAt,
           linkOps>>

svars == <<sdkInit, sdkConfig, sdkNetwork, sdkAttribution, sdkHandler,
           sdkTracker, inits, clearing, handlerGen, listeners, sdkLast,
           sdkOps>>

rvars == <<ops, reads, readFailed, writeFailed, cleared, sent>>

vars == <<qvars, nvars, avars, lvars, svars, rvars>>

----------------------------------------------------------------------------
(* Program constants and model bounds *)

MAX_QUEUE_SIZE == 100

\* number of calls in one behaviour of SpecQueue
MaxSteps == 4
\* number of calls in one behaviour of SpecTracker
MaxCalls == 2
\* number of calls during which AsyncStorage reads or writes fail
MaxFaults == 1
\* a persisted queue found at start holds 0..MaxPreload records, or
\* MAX_QUEUE_SIZE - 1 or MAX_QUEUE_SIZE records
MaxPreload == 3
\* a send sequence fails at its 1st .. (MaxOk+1)th send, or never
MaxOk == 2
MaxLaunches == 3
\* number of calls in one behaviour of SpecOverlap
MaxOverlap == 3
\* number of calls in one behaviour of SpecFlush
MaxFlushCalls == 2
\* number of sends that succeed in one behaviour of SpecFlush
MaxSent == 2
\* number of initialize and reset calls in one behaviour of SpecInit
MaxInits == 3
MaxLinkOps == 4

----------------------------------------------------------------------------
(* Data *)

NullId == "<null>"
InstallIds == {NullId, "", "install-1"}

\* event names as character sequences, so that trim() is computed
Names == { <<>>, <<" ", " ">>, <<" ", "b", "u", "y">> }
Whitespace == {" ", "\t", "\n"}
\* 0 is the smallest amount trackRevenue accepts
Amounts == {-1, 0}

NoData == [revenue |-> 0, currency |-> ""]
NoEvent == [installId |-> "", eventName |-> <<>>, eventData |-> NoData,
            timestamp |-> 0]

\* the i-th record of a queue persisted by an earlier process
OldEvent(i) == [installId |-> "install-1", eventName |-> <<"o", "l", "d">>,
                eventData |-> NoData, timestamp |-> i]

\* the failures network.request rejects with (LinkFortyErrorCode)
SendErrors == {"NETWORK_ERROR", "INVALID_RESPONSE"}

\* the number of sends that succeed before the first one that fails;
\* NoFailure: none fails
NoFailure == MAX_QUEUE_SIZE + 2
FailAfter == (0..MaxOk) \cup {NoFailure}

----------------------------------------------------------------------------
(* Persisted representation of the queue *)

NoDoc == [kind |-> "none", val |-> <<>>]
CorruptDoc == [kind |-> "corrupt", val |-> <<>>]

\* JSON.stringify(this.queue)
Stringify(q) == [kind |-> "json", val |-> q]

----------------------------------------------------------------------------
(* String helpers *)

RECURSIVE TrimStart(_)
TrimStart(s) ==
    IF s # <<>> /\ Head(s) \in Whitespace THEN TrimStart(Tail(s)) ELSE s

RECURSIVE TrimEnd(_)
TrimEnd(s) ==
    IF s # <<>> /\ s[Len(s)] \in Whitespace
    THEN TrimEnd(SubSeq(s, 1, Len(s) - 1)) ELSE s

\* mutant of Trim: the name is tested as given
Trim_None(s) == s

\* String.prototype.trim
Trim(s) == TrimEnd(TrimStart(s))

\* JavaScript falsiness of a string: !s
Falsy(s) == s = <<>>

----------------------------------------------------------------------------
(* EventQueue, as functions of the instance state                          *)
(*   s = [queue, loaded, stored]                                           *)
(* readOk / writeOk: whether AsyncStorage.getItem / setItem succeed during *)
(* the call.                                                               *)

QS == [queue |-> queue, loaded |-> loaded, stored |-> stored]

\* mutant of Persist: the document is replaced even when setItem fails
Persist_AlwaysWrites(s, writeOk) == [s EXCEPT !.stored = Stringify(s.queue)]

\* EventQueue.persist: a failed write is logged, the in-memory queue stands
Persist(s, writeOk) ==
    IF writeOk THEN [s EXCEPT !.stored = Stringify(s.queue)] ELSE s

\* EventQueue.load
Load(s, readOk) ==
    IF s.loaded THEN s
    ELSE IF ~readOk \/ s.stored.kind = "corrupt"
         THEN [s EXCEPT !.queue = <<>>, !.loaded = TRUE]
    ELSE IF s.stored.kind = "none"
         THEN [s EXCEPT !.loaded = TRUE]
    ELSE [s EXCEPT !.queue = s.stored.val, !.loaded = TRUE]

\* mutant of Clear: clear leaves the queue as it is
Clear_Noop(s, writeOk) == s

\* mutant of Enqueue: the capacity test is off by one
Enqueue_OffByOne(s, ev, readOk, writeOk) ==
    LET t == Load(s, readOk) IN
    IF Len(t.queue) > MAX_QUEUE_SIZE
    THEN [s |-> t, ret |-> FALSE]
    ELSE [s |-> Persist([t EXCEPT !.queue = Append(@, ev)], writeOk),
          ret |-> TRUE]

\* EventQueue.enqueue
Enqueue(s, ev, readOk, writeOk) ==
    LET t == Load(s, readOk) IN
    IF Len(t.queue) >= MAX_QUEUE_SIZE
    THEN [s |-> t, ret |-> FALSE]
    ELSE [s |-> Persist([t EXCEPT !.queue = Append(@, ev)], writeOk),
          ret |-> TRUE]

\* mutant of Dequeue: pop() instead of shift()
Dequeue_Lifo(s, readOk, writeOk) ==
    LET t == Load(s, readOk) IN
    IF Len(t.queue) = 0
    THEN [s |-> t, found |-> FALSE, ev |-> NoEvent]
    ELSE [s |-> Persist([t EXCEPT !.queue = SubSeq(@, 1, Len(@) - 1)],
                        writeOk),
          found |-> TRUE, ev |-> t.queue[Len(t.queue)]]

\* EventQueue.dequeue
Dequeue(s, readOk, writeOk) ==
    LET t == Load(s, readOk) IN
    IF Len(t.queue) = 0
    THEN [s |-> t, found |-> FALSE, ev |-> NoEvent]
    ELSE [s |-> Persist([t EXCEPT !.queue = Tail(@)], writeOk),
          found |-> TRUE, ev |-> Head(t.queue)]

\* EventQueue.clear
Clear(s, writeOk) == Persist([s EXCEPT !.queue = <<>>], writeOk)

----------------------------------------------------------------------------
(* EventTracker, as functions of the queue instance state.                 *)
(* The tracker sees the transport through NetworkManagerProtocol.request:  *)
(* budget is the number of sends that still succeed before one is          *)
(* rejected (NoFailure: every send succeeds).                              *)

Spend(budget) == IF budget = NoFailure THEN NoFailure ELSE budget - 1

\* mutant of FlushStep: the failed record is put back at the head
FlushStep_KeepHead(st) ==
    IF st.done THEN st
    ELSE IF Len(st.s.queue) = 0
    THEN [st EXCEPT !.done = TRUE]
    ELSE LET d == Dequeue(st.s, TRUE, st.writeOk) IN
         IF ~d.found
         THEN [st EXCEPT !.s = d.s, !.done = TRUE]
         ELSE IF st.budget = 0
         THEN [st EXCEPT !.s = Persist(st.s, st.writeOk), !.failed = TRUE,
                         !.attempts = Append(@, d.ev), !.requeued = TRUE,
                         !.done = TRUE]
         ELSE [st EXCEPT !.s = d.s, !.budget = Spend(@),
                         !.attempts = Append(@, d.ev)]

\* mutant of FlushStep: the failed record is not put back
FlushStep_DropFailed(st) ==
    IF st.done THEN st
    ELSE IF Len(st.s.queue) = 0
    THEN [st EXCEPT !.done = TRUE]
    ELSE LET d == Dequeue(st.s, TRUE, st.writeOk) IN
         IF ~d.found
         THEN [st EXCEPT !.s = d.s, !.done = TRUE]
         ELSE IF st.budget = 0
         THEN [st EXCEPT !.s = d.s, !.failed = TRUE,
                         !.attempts = Append(@, d.ev), !.done = TRUE]
         ELSE [st EXCEPT !.s = d.s, !.budget = Spend(@),
                         !.attempts = Append(@, d.ev)]

\* mutant of FlushStep: after a failed send the loop goes on
FlushStep_GoesOn(st) ==
    IF st.done THEN st
    ELSE IF Len(st.s.queue) = 0
    THEN [st EXCEPT !.done = TRUE]
    ELSE LET d == Dequeue(st.s, TRUE, st.writeOk) IN
         IF ~d.found
         THEN [st EXCEPT !.s = d.s, !.done = TRUE]
         ELSE IF st.budget = 0
         THEN LET e == Enqueue(d.s, d.ev, TRUE, st.writeOk) IN
              [st EXCEPT !.s = e.s, !.failed = TRUE,
                         !.attempts = Append(@, d.ev), !.requeued = e.ret]
         ELSE [st EXCEPT !.s = d.s, !.budget = Spend(@),
                         !.attempts = Append(@, d.ev)]

\* one pass through the while loop of EventTracker.flushQueue, from the
\* test of its condition; st.attempts: the records whose send was attempted
\* so far, in order; st.done: the loop was left
FlushStep(st) ==
    IF st.done THEN st
    ELSE IF Len(st.s.queue) = 0
    THEN [st EXCEPT !.done = TRUE]
    ELSE LET d == Dequeue(st.s, TRUE, st.writeOk) IN
         IF ~d.found
         THEN [st EXCEPT !.s = d.s, !.done = TRUE]
         ELSE IF st.budget = 0
         THEN LET e == Enqueue(d.s, d.ev, TRUE, st.writeOk) IN
              [st EXCEPT !.s = e.s, !.failed = TRUE,
                         !.attempts = Append(@, d.ev), !.requeued = e.ret,
                         !.done = TRUE]
         ELSE [st EXCEPT !.s = d.s, !.budget = Spend(@),
                         !.attempts = Append(@, d.ev)]

\* n passes through the loop
RECURSIVE FlushPasses(_, _)
FlushPasses(st, n) ==
    IF n = 0 THEN st
    ELSE IF n = 1 THEN FlushStep(st)
    ELSE LET half == FlushPasses(st, n \div 2) IN
         IF half.done THEN half ELSE FlushPasses(half, n - (n \div 2))

\* the while loop of EventTracker.flushQueue: every pass but the last takes
\* one record off the queue, so Len(queue) + 1 passes leave the loop
FlushLoop(s, budget, writeOk) ==
    FlushPasses([s |-> s, budget |-> budget, writeOk |-> writeOk,
                 attempts |-> <<>>, failed |-> FALSE, requeued |-> FALSE,
                 done |-> FALSE], Len(s.queue) + 1)

\* the records a flush sent successfully
SentOf(f) ==
    IF f.failed THEN SubSeq(f.attempts, 1, Len(f.attempts) - 1)
    ELSE f.attempts

\* EventTracker.flushQueue
FlushQueue(s, budget, readOk, writeOk) ==
    LET t == Load(s, readOk)
        f == FlushLoop(t, budget, writeOk)
    IN [s |-> f.s, outcome |-> IF f.done THEN "ok" ELSE "running",
        ev |-> NoEvent, pre |-> t.queue,
        attempts |-> f.attempts, sentNow |-> SentOf(f),
        deq |-> f.attempts,
        enq |-> IF f.requeued THEN <<f.attempts[Len(f.attempts)]>> ELSE <<>>,
        ret |-> ~f.failed, touched |-> TRUE, budget |-> budget]

\* a call that fails a guard before it touches the queue
Rejected(s, code) ==
    [s |-> s, outcome |-> code, ev |-> NoEvent, pre |-> s.queue,
     attempts |-> <<>>, sentNow |-> <<>>, deq |-> <<>>, enq |-> <<>>,
     ret |-> FALSE, touched |-> FALSE, budget |-> NoFailure]

\* mutant of TrackEvent: a record whose send failed is not queued
TrackEvent_NoQueue(s, installId, name, data, now, first, budget, readOk, writeOk) ==
    IF Falsy(name) \/ Falsy(Trim(name))
    THEN Rejected(s, "INVALID_EVENT_DATA")
    ELSE IF installId = NullId \/ installId = ""
    THEN Rejected(s, "NOT_INITIALIZED")
    ELSE LET event == [installId |-> installId, eventName |-> name,
                       eventData |-> data, timestamp |-> now]
         IN IF first = "ok"
            THEN LET f == FlushQueue(s, budget, readOk, writeOk) IN
                 [f EXCEPT !.outcome = "ok",
                           !.ev = event,
                           !.attempts = <<event>> \o @,
                           !.sentNow = <<event>> \o @]
            ELSE [s |-> Load(s, readOk), outcome |-> first, ev |-> event,
                  pre |-> Load(s, readOk).queue,
                  attempts |-> <<event>>, sentNow |-> <<>>, deq |-> <<>>,
                  enq |-> <<>>, ret |-> FALSE, touched |-> TRUE,
                  budget |-> budget]

\* mutant of TrackEvent: a failed send is reported as a NETWORK_ERROR
TrackEvent_Wrapped(s, installId, name, data, now, first, budget, readOk, writeOk) ==
    IF Falsy(name) \/ Falsy(Trim(name))
    THEN Rejected(s, "INVALID_EVENT_DATA")
    ELSE IF installId = NullId \/ installId = ""
    THEN Rejected(s, "NOT_INITIALIZED")
    ELSE LET event == [installId |-> installId, eventName |-> name,
                       eventData |-> data, timestamp |-> now]
         IN IF first = "ok"
            THEN LET f == FlushQueue(s, budget, readOk, writeOk) IN
                 [f EXCEPT !.outcome = "ok",
                           !.ev = event,
                           !.attempts = <<event>> \o @,
                           !.sentNow = <<event>> \o @]
            ELSE LET e == Enqueue(s, event, readOk, writeOk) IN
                 [s |-> e.s, outcome |-> "NETWORK_ERROR", ev |-> event,
                  pre |-> Load(s, readOk).queue,
                  attempts |-> <<event>>, sentNow |-> <<>>, deq |-> <<>>,
                  enq |-> IF e.ret THEN <<event>> ELSE <<>>,
                  ret |-> e.ret, touched |-> TRUE, budget |-> budget]

\* mutant of TrackEvent: a failed flush is treated like a failed send
TrackEvent_FlushPropagates(s, installId, name, data, now, first, budget, readOk, writeOk) ==
    IF Falsy(name) \/ Falsy(Trim(name))
    THEN Rejected(s, "INVALID_EVENT_DATA")
    ELSE IF installId = NullId \/ installId = ""
    THEN Rejected(s, "NOT_INITIALIZED")
    ELSE LET event == [installId |-> installId, eventName |-> name,
                       eventData |-> data, timestamp |-> now]
         IN IF first = "ok"
            THEN LET f == FlushQueue(s, budget, readOk, writeOk)
                     e == Enqueue(f.s, event, TRUE, writeOk)
                 IN IF f.ret
                    THEN [f EXCEPT !.outcome = "ok",
                                   !.ev = event,
                                   !.attempts = <<event>> \o @,
                                   !.sentNow = <<event>> \o @]
                    ELSE [f EXCEPT !.s = e.s,
                                   !.outcome = "NETWORK_ERROR",
                                   !.ev = event,
                                   !.attempts = <<event>> \o @,
                                   !.sentNow = <<event>> \o @]
            ELSE LET e == Enqueue(s, event, readOk, writeOk) IN
                 [s |-> e.s, outcome |-> first, ev |-> event,
                  pre |-> Load(s, readOk).queue,
                  attempts |-> <<event>>, sentNow |-> <<>>, deq |-> <<>>,
                  enq |-> IF e.ret THEN <<event>> ELSE <<>>,
                  ret |-> e.ret, touched |-> TRUE, budget |-> budget]

\* EventTracker.trackEvent; first: how the send of the new record ends
\* ("ok" or the failure the transport rejects with), budget: the sends of
\* the flush that follows a success
TrackEvent(s, installId, name, data, now, first, budget, readOk, writeOk) ==
    IF Falsy(name) \/ Falsy(Trim(name))
    THEN Rejected(s, "INVALID_EVENT_DATA")
    ELSE IF installId = NullId \/ installId = ""
    THEN Rejected(s, "NOT_INITIALIZED")
    ELSE LET event == [installId |-> installId, eventName |-> name,
                       eventData |-> data, timestamp |-> now]
         IN IF first = "ok"
            THEN LET f == FlushQueue(s, budget, readOk, writeOk) IN
                 [f EXCEPT !.outcome = "ok",
                           !.ev = event,
                           !.attempts = <<event>> \o @,
                           !.sentNow = <<event>> \o @]
            ELSE LET e == Enqueue(s, event, readOk, writeOk) IN
                 [s |-> e.s, outcome |-> first, ev |-> event,
                  pre |-> Load(s, readOk).queue,
                  attempts |-> <<event>>, sentNow |-> <<>>, deq |-> <<>>,
                  enq |-> IF e.ret THEN <<event>> ELSE <<>>,
                  ret |-> e.ret, touched |-> TRUE, budget |-> budget]

RevenueName == <<"r", "e", "v", "e", "n", "u", "e">>

\* EventTracker.trackRevenue
TrackRevenue(s, installId, amount, cur, now, first, budget, readOk, writeOk) ==
    IF amount < 0
    THEN Rejected(s, "INVALID_EVENT_DATA")
    ELSE TrackEvent(s, installId, RevenueName,
                    [revenue |-> amount, currency |-> cur], now, first,
                    budget, readOk, writeOk)

----------------------------------------------------------------------------
(* Calls on the queue itself, in the shape of the tracker's results *)

EnqueueCall(s, ev, readOk, writeOk) ==
    LET e == Enqueue(s, ev, readOk, writeOk) IN
    [s |-> e.s, outcome |-> "ok", ev |-> ev, pre |-> Load(s, readOk).queue,
     attempts |-> <<>>, sentNow |-> <<>>, deq |-> <<>>,
     enq |-> IF e.ret THEN <<ev>> ELSE <<>>, ret |-> e.ret, touched |-> TRUE,
     budget |-> NoFailure]

DequeueCall(s, readOk, writeOk) ==
    LET d == Dequeue(s, readOk, writeOk) IN
    [s |-> d.s, outcome |-> "ok", ev |-> d.ev, pre |-> Load(s, readOk).queue,
     attempts |-> <<>>, sentNow |-> <<>>,
     deq |-> IF d.found THEN <<d.ev>> ELSE <<>>, enq |-> <<>>,
     ret |-> d.found, touched |-> TRUE, budget |-> NoFailure]

\* load() and peek() (peek returns a copy of the queue, here r.pre)
LoadCall(s, readOk) ==
    LET t == Load(s, readOk) IN
    [s |-> t, outcome |-> "ok", ev |-> NoEvent, pre |-> t.queue,
     attempts |-> <<>>, sentNow |-> <<>>, deq |-> <<>>, enq |-> <<>>,
     ret |-> TRUE, touched |-> TRUE, budget |-> NoFailure]

----------------------------------------------------------------------------
(* SpecQueue and SpecTracker: state, and the step every call makes *)

NoCall == [op |-> "none", outcome |-> "ok", ev |-> NoEvent, pre |-> <<>>,
           attempts |-> <<>>, sentNow |-> <<>>, ret |-> FALSE,
           preStored |-> NoDoc, preLoaded |-> FALSE, budget |-> NoFailure]

OldQueue(n) == [i \in 1..n |-> OldEvent(i)]
PreloadLens == (0..MaxPreload) \cup {MAX_QUEUE_SIZE - 1, MAX_QUEUE_SIZE}

\* a fresh EventQueue over whatever an earlier process left in AsyncStorage
InitQueue ==
    /\ queue = <<>>
    /\ loaded = FALSE
    /\ stored \in {NoDoc, CorruptDoc} \cup
                  {Stringify(OldQueue(n)) : n \in PreloadLens}
    /\ clock = MAX_QUEUE_SIZE + 1
    /\ last = NoCall
    /\ base = <<>>
    /\ enqLog = <<>>
    /\ deqLog = <<>>
    /\ steps = 0
    /\ faults = 0

\* whether AsyncStorage.getItem / setItem succeed during a call
ReadChoices == IF faults < MaxFaults /\ ~loaded THEN BOOLEAN ELSE {TRUE}
WriteChoices == IF faults < MaxFaults THEN BOOLEAN ELSE {TRUE}

\* the state after a call that settled with result r
Settle(op, r, readOk, writeOk, bound) ==
    LET fresh == r.touched /\ ~loaded /\ r.s.loaded IN
    /\ steps < bound
    /\ steps' = steps + 1
    /\ faults' = IF readOk /\ writeOk THEN faults ELSE faults + 1
    /\ queue' = r.s.queue
    /\ loaded' = r.s.loaded
    /\ stored' = r.s.stored
    /\ last' = [op |-> op, outcome |-> r.outcome, ev |-> r.ev, pre |-> r.pre,
                attempts |-> r.attempts, sentNow |-> r.sentNow,
                ret |-> r.ret, preStored |-> stored, preLoaded |-> loaded,
                budget |-> r.budget]
    /\ base' = IF fresh THEN r.pre ELSE base
    /\ deqLog' = (IF fresh THEN <<>> ELSE deqLog) \o r.deq
    /\ enqLog' = (IF fresh THEN <<>> ELSE enqLog) \o r.enq
    /\ clock' = IF r.ev.timestamp = clock THEN clock + 1 ELSE clock
    /\ UNCHANGED <<cachedInstallId, nvars, rvars, avars, lvars, svars>>

\* the state after clear(), which does not load
SettleClear(op, writeOk, bound) ==
    /\ steps < bound
    /\ steps' = steps + 1
    /\ faults' = IF writeOk THEN faults ELSE faults + 1
    /\ LET s == Clear(QS, writeOk) IN
       /\ queue' = s.queue
       /\ loaded' = s.loaded
       /\ stored' = s.stored
    /\ last' = [NoCall EXCEPT !.op = op, !.pre = queue,
                              !.preStored = stored, !.preLoaded = loaded]
    /\ base' = <<>>
    /\ enqLog' = <<>>
    /\ deqLog' = <<>>
    /\ UNCHANGED <<cachedInstallId, clock, nvars, rvars, avars, lvars, svars>>

----------------------------------------------------------------------------
(* StorageManager and AttributionManager *)

\* values of an optional field of the link data a response carries
Absent == "absent"
Undefined == "undefined"
Null == "null"

\* deepLinkData: null
NullLink == [shortCode |-> NullId, customParameters |-> Absent,
             deepLinkParameters |-> Absent]

\* the link data the server may send
LinkDatas ==
    {[shortCode |-> "abc", customParameters |-> c, deepLinkParameters |-> p] :
        c \in {Absent, "cp"}, p \in {Absent, Null, "dlp"}}

\* the InstallAttributionResponse bodies the server may send
InstallResponses ==
    {[installId |-> i, attributed |-> a,
      confidenceScore |-> IF a THEN 85 ELSE 0,
      matchedFactors |-> IF a THEN <<"ip", "timezone">> ELSE <<>>,
      deepLinkData |-> d] :
        i \in {"", "inst-A", "inst-B"}, a \in BOOLEAN,
        d \in {NullLink} \cup LinkDatas}

\* what network.request does for the install report: a body, or it throws
RequestThrows == [installId |-> "<throws>", attributed |-> FALSE,
                  confidenceScore |-> 0, matchedFactors |-> <<>>,
                  deepLinkData |-> NullLink]
InstallOutcomes == InstallResponses \cup {RequestThrows}

\* documents under INSTALL_DATA
NoLinkDoc == [kind |-> "none", val |-> NullLink]
CorruptLinkDoc == [kind |-> "corrupt", val |-> NullLink]

\* a field as JSON.stringify writes it: an undefined field is left out
StringifyField(v) == IF v = Undefined THEN Absent ELSE v

\* JSON.stringify(data) of a DeepLinkData
StringifyLink(d) ==
    [kind |-> "json",
     val |-> [shortCode |-> d.shortCode,
              customParameters |-> StringifyField(d.customParameters),
              deepLinkParameters |-> StringifyField(d.deepLinkParameters)]]

\* a ?? b
Coalesce(a, b) == IF a \in {Absent, Undefined, Null} THEN b ELSE a

\* the storage as a record st = [installId, installData, launched]
Storage == [installId |-> stInstallId, installData |-> stInstallData,
            launched |-> stLaunched]

\* StorageManager.saveInstallData: a failed setItem is logged and swallowed
SaveInstallData(st, d, saveOk) ==
    IF saveOk THEN [st EXCEPT !.installData = StringifyLink(d)] ELSE st

\* mutant of GetInstallData: the cached document is never read
GetInstallData_Null(st, readOk) == NullLink

\* StorageManager.getInstallData: null when the key is absent, when getItem
\* fails and when the document does not parse
GetInstallData(st, readOk) ==
    IF readOk /\ st.installData.kind = "json" THEN st.installData.val
    ELSE NullLink

\* mutant of IsFirstLaunch: a launch is first while no install id is cached
IsFirstLaunch_NoInstallId(st) == st.installId = NullId

\* StorageManager.isFirstLaunch
IsFirstLaunch(st) == ~st.launched

\* mutant of SetHasLaunched: the flag is not written
SetHasLaunched_Noop(st) == st

\* StorageManager.setHasLaunched
SetHasLaunched(st) == [st EXCEPT !.launched = TRUE]

\* mutant of BuildCachedResponse: attribution is read off the cached id
BuildCachedResponse_FromId(st, readOk) ==
    [installId |-> IF st.installId = NullId THEN "" ELSE st.installId,
     attributed |-> st.installId # NullId,
     confidenceScore |-> IF st.installId # NullId THEN 100 ELSE 0,
     matchedFactors |-> <<>>,
     deepLinkData |-> GetInstallData(st, readOk)]

\* AttributionManager.buildCachedResponse
BuildCachedResponse(st, readOk) ==
    LET deepLinkData == GetInstallData(st, readOk) IN
    [installId |-> IF st.installId = NullId THEN "" ELSE st.installId,
     attributed |-> deepLinkData # NullLink,
     confidenceScore |-> IF deepLinkData # NullLink THEN 100 ELSE 0,
     matchedFactors |-> <<>>,
     deepLinkData |-> deepLinkData]

\* the result of a failed install report
OrganicResult == [installId |-> "", attributed |-> FALSE,
                  confidenceScore |-> 0, matchedFactors |-> <<>>,
                  deepLinkData |-> NullLink]

\* mutant of Normalize: customParameters wins over deepLinkParameters
Normalize_CustomWins(d) ==
    [d EXCEPT !.customParameters =
        IF Coalesce(d.customParameters, d.deepLinkParameters) = Absent
        THEN Undefined
        ELSE Coalesce(d.customParameters, d.deepLinkParameters)]

\* { ...response.deepLinkData, customParameters: deepLinkParameters ?? customParameters }
Normalize(d) ==
    [d EXCEPT !.customParameters =
        IF Coalesce(d.deepLinkParameters, d.customParameters) = Absent
        THEN Undefined
        ELSE Coalesce(d.deepLinkParameters, d.customParameters)]

\* whether reportInstall caches the link data of a response
Caches(resp) == resp.attributed /\ resp.deepLinkData # NullLink

\* AttributionManager.reportInstall: the storage it leaves, the result it
\* returns, and how many requests and fingerprint collections it made
ReportInstall(st, out, saveOk, readOk) ==
    IF ~IsFirstLaunch(st)
    THEN [st |-> st, result |-> BuildCachedResponse(st, readOk),
          posts |-> 0, collects |-> 0]
    ELSE IF out = RequestThrows
    THEN [st |-> SetHasLaunched(st), result |-> OrganicResult,
          posts |-> 1, collects |-> 1]
    ELSE LET st1 == IF out.installId # ""
                    THEN [st EXCEPT !.installId = out.installId] ELSE st
             st2 == IF Caches(out)
                    THEN SaveInstallData(st1, Normalize(out.deepLinkData), saveOk)
                    ELSE st1
         IN [st |-> SetHasLaunched(st2),
             result |-> IF Caches(out)
                        THEN [out EXCEPT !.deepLinkData = Normalize(out.deepLinkData)]
                        ELSE out,
             posts |-> 1, collects |-> 1]

NoStorage == [installId |-> NullId, installData |-> NoLinkDoc,
              launched |-> FALSE]

NoAttrCall == [op |-> "none", pre |-> NoStorage, out |-> RequestThrows,
               readOk |-> TRUE, saveOk |-> TRUE, result |-> OrganicResult,
               posts |-> 0, collects |-> 0]

AttrIdle ==
    /\ stInstallId = NullId
    /\ stInstallData = NoLinkDoc
    /\ stLaunched = FALSE
    /\ posts = 0
    /\ collects = 0
    /\ attrLast = NoAttrCall
    /\ firstCall = NoAttrCall
    /\ launches = 0

----------------------------------------------------------------------------
(* url-parser: a URL is a sequence of pieces of text in which "://", "/",
   "?" and "#" are pieces of their own *)

\* s.indexOf(piece), 0 when the piece does not occur
IndexOf(s, piece) ==
    IF \E i \in 1..Len(s) : s[i] = piece
    THEN CHOOSE i \in 1..Len(s) : s[i] = piece /\ \A j \in 1..(i - 1) : s[j] # piece
    ELSE 0

\* s.substring(i) with pieces counted from 1
From(s, i) == SubSeq(s, i, Len(s))

\* s.startsWith(prefix)
StartsWith(s, prefix) ==
    Len(s) >= Len(prefix) /\ SubSeq(s, 1, Len(prefix)) = prefix

\* baseUrl.replace(/\/+$/, '')
RECURSIVE StripSlashes(_)
StripSlashes(s) ==
    IF s # <<>> /\ s[Len(s)] = "/" THEN StripSlashes(SubSeq(s, 1, Len(s) - 1))
    ELSE s

NoParse == [ok |-> FALSE, pathname |-> <<>>, query |-> <<>>]

\* parseUrlString
ParseUrlString(url) ==
    IF IndexOf(url, "://") = 0 THEN NoParse
    ELSE LET afterProtocol == From(url, IndexOf(url, "://") + 1)
             pathAndQuery == IF IndexOf(afterProtocol, "/") = 0 THEN <<"/">>
                             ELSE From(afterProtocol, IndexOf(afterProtocol, "/"))
             withoutHash == IF IndexOf(pathAndQuery, "#") = 0 THEN pathAndQuery
                            ELSE SubSeq(pathAndQuery, 1, IndexOf(pathAndQuery, "#") - 1)
             queryStart == IndexOf(withoutHash, "?")
         IN [ok |-> TRUE,
             pathname |-> IF queryStart = 0 THEN withoutHash
                          ELSE SubSeq(withoutHash, 1, queryStart - 1),
             query |-> IF queryStart = 0 THEN <<>>
                       ELSE From(withoutHash, queryStart + 1)]

IsSegment(piece) == piece # "/"

\* pathname.split('/').filter(Boolean)
PathSegments(pathname) == SelectSeq(pathname, IsSegment)

\* parseDeepLinkUrl(url, baseUrl): NullLink for null; the query parameters
\* that are not UTM keys are the customParameters
ParseDeepLinkUrl(url, bu) ==
    IF bu # <<>> /\ ~StartsWith(url, bu) THEN NullLink
    ELSE IF ~ParseUrlString(url).ok THEN NullLink
    ELSE LET parsed == ParseUrlString(url)
             segs == PathSegments(parsed.pathname)
         IN IF segs = <<>> THEN NullLink
            ELSE [shortCode |-> segs[Len(segs)],
                  customParameters |-> IF parsed.query = <<>> THEN Undefined
                                       ELSE "query",
                  deepLinkParameters |-> Absent]

----------------------------------------------------------------------------
(* DeepLinkHandler *)

\* the base URL of the configuration, and this.baseUrl
ConfigBaseUrl == <<"https", "://", "go.example.com", "/">>
baseUrl == StripSlashes(ConfigBaseUrl)

\* the URLs handed to the handler
EmptyUrl == <<>>
Urls ==
    {EmptyUrl,
     <<"https", "://", "go.example.com", "/", "abc">>,
     <<"https", "://", "go.example.com", "/", "tmpl", "/", "abc", "?", "k=v">>,
     <<"https", "://", "go.example.com", "/">>,
     <<"https", "://", "other.example.org", "/", "abc">>,
     <<"https", "://", "go.example.com", ".evil.net", "/", "abc">>}

\* the callbacks an application registers; Boom throws whenever it is called
Boom == "boom"
Callbacks == {"f", Boom}
Throws(fn) == fn = Boom

\* link data the server resolves a URL to, and deferred payloads
ServerLink == [shortCode |-> "srv", customParameters |-> "cp",
               deepLinkParameters |-> Absent]
DeferredLink == [shortCode |-> "deferred", customParameters |-> Undefined,
                 deepLinkParameters |-> Absent]

\* how network.request settles for a resolve: a body (null included) or a throw
RequestFailed == [shortCode |-> "<throws>", customParameters |-> Absent,
                  deepLinkParameters |-> Absent]
ResolveOutcomes == {ServerLink, NullLink, RequestFailed}

\* for (const cb of regs) cb(...): the registrations invoked, up to and
\* including the first one whose callback throws
FirstThrower(regs) ==
    IF \E i \in 1..Len(regs) : Throws(regs[i].fn)
    THEN CHOOSE i \in 1..Len(regs) :
            Throws(regs[i].fn) /\ \A j \in 1..(i - 1) : ~Throws(regs[j].fn)
    ELSE 0
\* mutant of Invoked: a loop stops after its first callback
Invoked_OnlyFirst(regs) == IF regs = <<>> THEN <<>> ELSE <<regs[1]>>

Invoked(regs) ==
    IF FirstThrower(regs) = 0 THEN regs ELSE SubSeq(regs, 1, FirstThrower(regs))
LoopThrows(regs) == FirstThrower(regs) # 0

\* mutant of Invocations: the loop runs over the registry backwards
Invocations_Reversed(regs, kind, h, phase, url, data) ==
    [i \in 1..Len(Invoked(regs)) |->
        [reg |-> regs[Len(regs) + 1 - i].reg, fn |-> regs[Len(regs) + 1 - i].fn,
         kind |-> kind, h |-> h, phase |-> phase, url |-> url, data |-> data]]

\* the invocations of one loop: registry kind, the handled URL's number h
\* (0 for a deferred delivery), the phase of the round, and the arguments
Invocations(regs, kind, h, phase, url, data) ==
    [i \in 1..Len(Invoked(regs)) |->
        [reg |-> regs[i].reg, fn |-> regs[i].fn, kind |-> kind, h |-> h,
         phase |-> phase, url |-> url, data |-> data]]

\* the resolve path of resolveUrl: the first one or two path segments;
\* <<>>: resolveUrl returns null without a request
ResolvePath(url) ==
    IF ~ParseUrlString(url).ok THEN <<>>
    ELSE LET segs == PathSegments(ParseUrlString(url).pathname) IN
         IF segs = <<>> THEN <<>>
         ELSE IF Len(segs) >= 2 THEN <<segs[1], segs[2]>>
         ELSE <<segs[1]>>

\* what resolveUrl resolves to once network.request settled with outcome
ResolveUrl(outcome) == IF outcome = RequestFailed THEN NullLink ELSE outcome

\* mutant of Delivered: the local data is delivered whatever was resolved
Delivered_Local(resolved, localData) == localData

\* resolvedData ?? localData
Delivered(resolved, localData) ==
    IF resolved = NullLink THEN localData ELSE resolved

NoLinkOp == [op |-> "none", fn |-> "", url |-> EmptyUrl, data |-> NullLink,
             h |-> 0, threw |-> FALSE, requested |-> FALSE,
             collected |-> 0, fpOk |-> TRUE, outcome |-> NullLink,
             localData |-> NullLink, preDirect |-> <<>>, preDeferred |-> <<>>,
             preDelivered |-> FALSE, preCached |-> NullLink, preCalls |-> 0,
             regs |-> 0]

\* the fields of linkLast every operation records
LinkOp(op) ==
    [NoLinkOp EXCEPT !.op = op, !.h = linkOps + 1,
                     !.preDirect = deepLinkCallbacks,
                     !.preDeferred = deferredCallbacks,
                     !.preDelivered = deferredDelivered,
                     !.preCached = cachedDeferredData,
                     !.preCalls = Len(calls)]

LinkIdle ==
    /\ deferredCallbacks = <<>>
    /\ deepLinkCallbacks = <<>>
    /\ deferredDelivered = FALSE
    /\ cachedDeferredData = NullLink
    /\ pending = <<>>
    /\ calls = <<>>
    /\ linkLast = NoLinkOp
    /\ nextReg = 1
    /\ clearedAt = [reg |-> 1, calls |-> 0]
    /\ linkOps = 0

----------------------------------------------------------------------------
(* LinkFortySDKClass: the facade, its configuration and its guards *)

\* how many calls the application makes on the facade in one run
MaxSdkOps == 3

\* the lower and upper bound of attributionWindowHours
MinWindowHours == 1
MaxWindowHours == 2160

LOCALHOST_HOSTS == {"localhost", "127.0.0.1", "0.0.0.0", "10.0.2.2"}

\* new URL(baseUrl): the protocol and hostname, or parses = FALSE
BaseUrls ==
    { [text |-> "", parses |-> FALSE, protocol |-> "", hostname |-> ""],
      [text |-> "http://go.example.com", parses |-> TRUE,
       protocol |-> "http:", hostname |-> "go.example.com"],
      [text |-> "https://go.example.com", parses |-> TRUE,
       protocol |-> "https:", hostname |-> "go.example.com"] }

HttpsBase == CHOOSE b \in BaseUrls : b.protocol = "https:"

\* attributionWindowHours left undefined
NoWindow == [set |-> FALSE, hours |-> 0]

\* the configurations the application passes to initialize
Configs ==
    { [baseUrl |-> b, window |-> NoWindow, apiKey |-> TRUE] : b \in BaseUrls }
    \cup { [baseUrl |-> HttpsBase, window |-> [set |-> TRUE, hours |-> 0], apiKey |-> TRUE],
           [baseUrl |-> HttpsBase, window |-> [set |-> TRUE, hours |-> 168], apiKey |-> FALSE] }

\* this.config = null
NullConfig ==
    [baseUrl |-> [text |-> "<null>", parses |-> FALSE, protocol |-> "",
                  hostname |-> ""],
     window |-> NoWindow, apiKey |-> FALSE]

\* validateConfig: TRUE when it returns, FALSE when it throws
ValidateConfig(config) ==
    /\ config.baseUrl.text # ""
    /\ config.baseUrl.parses
    /\ \/ config.baseUrl.protocol = "https:"
       \/ config.baseUrl.hostname \in LOCALHOST_HOSTS
    /\ \/ ~config.window.set
       \/ /\ config.window.hours >= MinWindowHours
          /\ config.window.hours <= MaxWindowHours

\* requireInitialized: TRUE when it returns, FALSE when it throws
RequireInitialized == sdkInit

\* requireDeepLinkHandler
RequireDeepLinkHandler == sdkInit /\ sdkHandler

\* mutant of RequireEventTracker: the guard lets every call through
RequireEventTracker_Open == TRUE

\* requireEventTracker
RequireEventTracker == sdkInit /\ sdkTracker

HandlerMethods == {"onDeferredDeepLink", "onDeepLink", "handleDeepLink"}
TrackerMethods == {"trackEvent", "trackRevenue", "flushEvents", "clearEventQueue"}
GuardedMethods == HandlerMethods \cup TrackerMethods \cup {"createLink"}

\* the guard each facade method starts with
Guard(method) ==
    IF method \in HandlerMethods THEN RequireDeepLinkHandler
    ELSE IF method \in TrackerMethods THEN RequireEventTracker
    ELSE RequireInitialized

NoSdkCall == [method |-> "none", error |-> "none", seq |-> 0, resets |-> 0,
              requests |-> 0, step |-> "call", calls |-> 0,
              accepted |-> 0, alone |-> TRUE, at |-> <<0, 0>>]

\* the facade as the module exports it: new LinkFortySDK()
SdkIdle ==
    /\ sdkInit = FALSE
    /\ sdkConfig = NullConfig
    /\ sdkNetwork = FALSE
    /\ sdkAttribution = FALSE
    /\ sdkHandler = FALSE
    /\ sdkTracker = FALSE
    /\ inits = <<>>
    /\ clearing = <<>>
    /\ handlerGen = 0
    /\ listeners = {}
    /\ sdkLast = NoSdkCall
    /\ sdkOps = 0

----------------------------------------------------------------------------
(* LinkFortyError and the text of its messages *)

DigitChars == <<"0", "1", "2", "3", "4", "5", "6", "7", "8", "9">>
IsDigit(c) == \E d \in 1..10 : DigitChars[d] = c
DigitValue(c) == (CHOOSE d \in 1..10 : DigitChars[d] = c) - 1

\* `${statusCode}`: the decimal digits of a natural number
RECURSIVE Digits(_)
Digits(n) ==
    IF n < 10 THEN <<DigitChars[n + 1]>>
    ELSE Digits(n \div 10) \o <<DigitChars[(n % 10) + 1]>>

\* parseInt(digits, 10)
RECURSIVE ParseInt(_)
ParseInt(ds) ==
    IF ds = <<>> THEN 0
    ELSE 10 * ParseInt(SubSeq(ds, 1, Len(ds) - 1)) + DigitValue(ds[Len(ds)])

\* the longest run of digits at the head of s
RECURSIVE DigitRun(_)
DigitRun(s) ==
    IF s # <<>> /\ IsDigit(Head(s)) THEN <<Head(s)>> \o DigitRun(Tail(s))
    ELSE <<>>

\* message.match(/status: (\d+)/): the digits captured by the first match,
\* <<>> when nothing matches; a message is a sequence of pieces of text in
\* which "status: " is one piece and every digit is one piece
RECURSIVE StatusMatch(_)
StatusMatch(msg) ==
    IF msg = <<>> THEN <<>>
    ELSE IF Head(msg) = "status: " /\ DigitRun(Tail(msg)) # <<>>
         THEN DigitRun(Tail(msg))
    ELSE StatusMatch(Tail(msg))

NoCause == "none"
NoError == [lf |-> FALSE, code |-> "none", message |-> <<>>,
            cause |-> NoCause]

\* LinkFortyError.networkError(cause)
NetworkError(cause) ==
    [lf |-> TRUE, code |-> "NETWORK_ERROR",
     message |-> <<"Network error: ", cause>>, cause |-> cause]

\* LinkFortyError.invalidResponse(statusCode, message); message <<>>: none
InvalidResponse(statusCode, message) ==
    [lf |-> TRUE, code |-> "INVALID_RESPONSE",
     message |-> <<"Invalid server response (", "status: ">>
                 \o Digits(statusCode) \o <<")">>
                 \o (IF message = <<>> THEN <<>> ELSE <<": ">> \o message),
     cause |-> NoCause]

\* LinkFortyError.decodingError(cause)
DecodingError(cause) ==
    [lf |-> TRUE, code |-> "DECODING_ERROR",
     message |-> <<"Failed to decode response: ", cause>>, cause |-> cause]

----------------------------------------------------------------------------
(* NetworkManager *)

maxRetries == 3

\* what fetch gives one attempt: it throws, or a response with a status and
\* a body that response.json() cannot parse ("bad") or parses
Statuses == {200, 299, 302, 400, 404, 499, 500, 503}
Bodies == {"bad", "body-1", "body-2"}
FetchThrows == [kind |-> "throw", status |-> 0, json |-> "bad"]
Responses ==
    {FetchThrows} \cup
    {[kind |-> "http", status |-> st, json |-> b] : st \in Statuses, b \in Bodies}

\* mutant of Ok: only a 200 counts as a success
Ok_Only200(resp) == resp.status = 200

\* Response.ok
Ok(resp) == resp.status >= 200 /\ resp.status <= 299

\* body.message || body.error of a parsed error body; body-2 carries a
\* message that itself reads like a status
MessageOf(json) ==
    IF json = "body-2" THEN <<"status: ", "2", "0", "0">> ELSE <<>>

\* NetworkManager.performRequest, given what fetch does:
\* [ok |-> TRUE, body] when it returns, [ok |-> FALSE, err] when it throws
PerformRequest(resp) ==
    IF resp.kind = "throw"
    THEN [ok |-> FALSE, body |-> "none", err |-> NetworkError("fetch failed")]
    ELSE IF ~Ok(resp)
    THEN [ok |-> FALSE, body |-> "none",
          err |-> InvalidResponse(resp.status,
                                  IF resp.json = "bad" THEN <<>>
                                  ELSE MessageOf(resp.json))]
    ELSE IF resp.json = "bad"
    THEN [ok |-> FALSE, body |-> "none",
          err |-> DecodingError("Unexpected token")]
    ELSE [ok |-> TRUE, body |-> resp.json, err |-> NoError]

\* the status request reads back from an INVALID_RESPONSE message; -1: none
StatusOf(e) ==
    IF StatusMatch(e.message) = <<>> THEN -1
    ELSE ParseInt(StatusMatch(e.message))

\* mutant of Rethrown: the lower end of the client-error range is missed
Rethrown_Above400(e) ==
    /\ e.lf
    /\ \/ /\ e.code = "INVALID_RESPONSE"
          /\ StatusMatch(e.message) # <<>>
          /\ StatusOf(e) > 400 /\ StatusOf(e) < 500
       \/ e.code \in {"INVALID_CONFIGURATION", "DECODING_ERROR"}

\* the catch block of request: whether e is thrown on without a retry
Rethrown(e) ==
    /\ e.lf
    /\ \/ /\ e.code = "INVALID_RESPONSE"
          /\ StatusMatch(e.message) # <<>>
          /\ StatusOf(e) >= 400 /\ StatusOf(e) < 500
       \/ e.code \in {"INVALID_CONFIGURATION", "DECODING_ERROR"}

RECURSIVE Pow2(_)
Pow2(n) == IF n = 0 THEN 1 ELSE 2 * Pow2(n - 1)

\* mutant of DelayMs: the exponent is the attempt, not the attempt - 1
DelayMs_Late(a) == Pow2(a) * 1000

\* Math.pow(2, attempt - 1) * 1000
DelayMs(a) == Pow2(a - 1) * 1000

\* mutant of Exhausted: every exhausted request is wrapped as a network error
Exhausted_Wrapped(e) == NetworkError(e.code)

\* what request throws once the loop is over
Exhausted(e) ==
    IF e.lf THEN e
    ELSE NetworkError(IF e = NoError THEN "Request failed after 3 attempts"
                      ELSE e.cause)

NoResult == [kind |-> "none", body |-> "none", err |-> NoError]

NetIdle ==
    /\ netPc = "idle"
    /\ attempt = 0
    /\ lastError = NoError
    /\ fetches = <<>>
    /\ delays = <<>>
    /\ netResult = NoResult

\* request(endpoint, options) is called: the loop starts with attempt 1
NetStart ==
    /\ netPc \in {"idle", "done"}
    /\ netPc' = "attempt"
    /\ attempt' = 1
    /\ lastError' = NoError
    /\ fetches' = <<>>
    /\ delays' = <<>>
    /\ netResult' = NoResult
    /\ UNCHANGED <<qvars, avars, lvars, svars, rvars>>

\* one pass of the loop up to its next await or to the end of request:
\* performRequest, and on a failure the catch block; after the last attempt
\* the throw behind the loop
NetAttempt ==
    /\ netPc = "attempt"
    /\ \E resp \in Responses :
        LET r == PerformRequest(resp) IN
        /\ fetches' = Append(fetches, resp)
        /\ IF r.ok
           THEN /\ netPc' = "done"
                /\ netResult' = [kind |-> "return", body |-> r.body,
                                 err |-> NoError]
                /\ UNCHANGED <<lastError, delays>>
           ELSE /\ lastError' = r.err
                /\ IF Rethrown(r.err)
                   THEN /\ netPc' = "done"
                        /\ netResult' = [kind |-> "throw", body |-> "none",
                                         err |-> r.err]
                        /\ UNCHANGED delays
                   ELSE IF attempt < maxRetries
                   THEN /\ netPc' = "delay"
                        /\ delays' = Append(delays, DelayMs(attempt))
                        /\ UNCHANGED netResult
                   ELSE /\ netPc' = "done"
                        /\ netResult' = [kind |-> "throw", body |-> "none",
                                         err |-> Exhausted(r.err)]
                        /\ UNCHANGED delays
    /\ UNCHANGED <<attempt, qvars, avars, lvars, svars, rvars>>

\* the backoff timer fires: attempt++ and the next pass
NetDelay ==
    /\ netPc = "delay"
    /\ netPc' = "attempt"
    /\ attempt' = attempt + 1
    /\ UNCHANGED <<lastError, fetches, delays, netResult, qvars, avars, lvars, svars, rvars>>

\* no call was made on the instance yet
OverlapIdle ==
    /\ ops = <<>>
    /\ reads = 0
    /\ readFailed = FALSE
    /\ writeFailed = FALSE
    /\ cleared = [done |-> FALSE, val |-> <<>>]
    /\ sent = <<>>

QueueIdle ==
    /\ queue = <<>>
    /\ loaded = FALSE
    /\ stored = NoDoc
    /\ cachedInstallId = NullId
    /\ clock = MAX_QUEUE_SIZE + 1
    /\ last = NoCall
    /\ base = <<>>
    /\ enqLog = <<>>
    /\ deqLog = <<>>
    /\ steps = 0
    /\ faults = 0

InitNet ==
    /\ NetIdle
    /\ OverlapIdle
    /\ LinkIdle
    /\ SdkIdle
    /\ AttrIdle
    /\ QueueIdle

NextNet ==
    \/ NetStart
    \/ NetAttempt
    \/ NetDelay

SpecNet == InitNet /\ [][NextNet]_vars

----------------------------------------------------------------------------
(* SpecAttr: launches of the app over one AsyncStorage.  AttributionManager
   keeps no state of its own, so every call may be one of a new instance. *)

\* reportInstall on a first launch: the request settles with out
FirstLaunch ==
    /\ launches < MaxLaunches
    /\ IsFirstLaunch(Storage)
    /\ \E out \in InstallOutcomes :
       \E saveOk \in (IF out # RequestThrows /\ Caches(out) THEN BOOLEAN ELSE {TRUE}) :
        LET r == ReportInstall(Storage, out, saveOk, TRUE) IN
        /\ stInstallId' = r.st.installId
        /\ stInstallData' = r.st.installData
        /\ stLaunched' = r.st.launched
        /\ posts' = posts + r.posts
        /\ collects' = collects + r.collects
        /\ attrLast' = [op |-> "reportInstall", pre |-> Storage, out |-> out,
                        readOk |-> TRUE, saveOk |-> saveOk,
                        result |-> r.result, posts |-> r.posts,
                        collects |-> r.collects]
    /\ firstCall' = attrLast'
    /\ launches' = launches + 1
    /\ UNCHANGED <<qvars, nvars, rvars, lvars, svars>>

\* reportInstall on a repeat launch; out is what a request would be given
RepeatLaunch ==
    /\ launches < MaxLaunches
    /\ ~IsFirstLaunch(Storage)
    /\ \E out \in {RequestThrows, CHOOSE x \in InstallResponses :
                                     x.installId = "inst-B" /\ Caches(x)} :
       \E readOk \in BOOLEAN :
        LET r == ReportInstall(Storage, out, TRUE, readOk) IN
        /\ stInstallId' = r.st.installId
        /\ stInstallData' = r.st.installData
        /\ stLaunched' = r.st.launched
        /\ posts' = posts + r.posts
        /\ collects' = collects + r.collects
        /\ attrLast' = [op |-> "reportInstall", pre |-> Storage, out |-> out,
                        readOk |-> readOk, saveOk |-> TRUE,
                        result |-> r.result, posts |-> r.posts,
                        collects |-> r.collects]
    /\ UNCHANGED firstCall
    /\ launches' = launches + 1
    /\ UNCHANGED <<qvars, nvars, rvars, lvars, svars>>

\* mutant of ClearedQueueDoc: clearAll leaves the EVENT_QUEUE key alone
ClearedQueueDoc_Kept == stored

\* clearAll: what multiRemove leaves under the EVENT_QUEUE key
ClearedQueueDoc == NoDoc

\* AttributionManager.clearData: storage.clearAll removes the four keys
AttrClearData ==
    /\ launches < MaxLaunches
    /\ stInstallId' = NullId
    /\ stInstallData' = NoLinkDoc
    /\ stLaunched' = FALSE
    /\ stored' = ClearedQueueDoc
    /\ last' = [NoCall EXCEPT !.op = "clearAll", !.pre = queue,
                              !.preStored = stored, !.preLoaded = loaded]
    /\ attrLast' = [NoAttrCall EXCEPT !.op = "clearData", !.pre = Storage]
    /\ firstCall' = NoAttrCall
    /\ launches' = launches + 1
    /\ UNCHANGED <<posts, collects, nvars, rvars, lvars, svars>>
    /\ UNCHANGED <<queue, loaded, cachedInstallId, clock, base, enqLog,
                   deqLog, steps, faults>>

\* the document under INSTALL_DATA stops being parseable
CorruptInstallData ==
    /\ stInstallData.kind = "json"
    /\ stInstallData' = CorruptLinkDoc
    /\ attrLast' = [NoAttrCall EXCEPT !.op = "corrupt", !.pre = Storage]
    /\ UNCHANGED <<stInstallId, stLaunched, posts, collects, firstCall,
                   launches, qvars, nvars, rvars, lvars, svars>>

InitAttr ==
    /\ AttrIdle
    /\ NetIdle
    /\ OverlapIdle
    /\ LinkIdle
    /\ SdkIdle
    /\ queue = <<>>
    /\ loaded = FALSE
    /\ stored \in {NoDoc, Stringify(OldQueue(1))}
    /\ cachedInstallId = NullId
    /\ clock = MAX_QUEUE_SIZE + 1
    /\ last = NoCall
    /\ base = <<>>
    /\ enqLog = <<>>
    /\ deqLog = <<>>
    /\ steps = 0
    /\ faults = 0

NextAttr ==
    \/ FirstLaunch
    \/ RepeatLaunch
    \/ AttrClearData
    \/ CorruptInstallData

SpecAttr == InitAttr /\ [][NextAttr]_vars

----------------------------------------------------------------------------
(* SpecLink: one DeepLinkHandler, its registrations, the URLs it is handed
   and the resolutions it has in flight *)

\* mutant of ReplayToLate: a late registrant is never called back
ReplayToLate_Never(reg, h) == <<>>

\* onDeferredDeepLink: if (this.deferredDelivered) callback(this.cachedDeferredData)
ReplayToLate(reg, h) ==
    IF deferredDelivered
    THEN Invocations(<<reg>>, "deferred", h, "register", EmptyUrl, cachedDeferredData)
    ELSE <<>>

\* onDeferredDeepLink(callback)
OnDeferredDeepLink ==
    /\ linkOps < MaxLinkOps
    /\ \E fn \in Callbacks :
        LET reg == [fn |-> fn, reg |-> nextReg] IN
        /\ deferredCallbacks' = Append(deferredCallbacks, reg)
        /\ calls' = calls \o ReplayToLate(reg, linkOps + 1)
        /\ linkLast' = [LinkOp("onDeferredDeepLink") EXCEPT
                            !.fn = fn,
                            !.threw = deferredDelivered /\ Throws(fn)]
    /\ nextReg' = nextReg + 1
    /\ linkOps' = linkOps + 1
    /\ UNCHANGED <<deepLinkCallbacks, deferredDelivered, cachedDeferredData,
                   pending, clearedAt, qvars, nvars, rvars, avars, svars>>

\* mutant of OnDeepLink: the URL handled last is replayed to the registrant
OnDeepLink_Replays ==
    /\ linkOps < MaxLinkOps
    /\ \E fn \in Callbacks :
        /\ deepLinkCallbacks' = Append(deepLinkCallbacks, [fn |-> fn, reg |-> nextReg])
        /\ linkLast' = [LinkOp("onDeepLink") EXCEPT !.fn = fn]
        /\ calls' = calls \o
               (IF linkLast.op = "handleDeepLink" /\ linkLast.url # EmptyUrl
                THEN Invocations(<<[fn |-> fn, reg |-> nextReg]>>, "direct",
                                 linkLast.h, "local", linkLast.url,
                                 linkLast.localData)
                ELSE <<>>)
    /\ nextReg' = nextReg + 1
    /\ linkOps' = linkOps + 1
    /\ UNCHANGED <<deferredCallbacks, deferredDelivered, cachedDeferredData,
                   pending, clearedAt, qvars, nvars, rvars, avars, svars>>

\* onDeepLink(callback)
OnDeepLink ==
    /\ linkOps < MaxLinkOps
    /\ \E fn \in Callbacks :
        /\ deepLinkCallbacks' = Append(deepLinkCallbacks, [fn |-> fn, reg |-> nextReg])
        /\ linkLast' = [LinkOp("onDeepLink") EXCEPT !.fn = fn]
    /\ nextReg' = nextReg + 1
    /\ linkOps' = linkOps + 1
    /\ UNCHANGED <<deferredCallbacks, deferredDelivered, cachedDeferredData,
                   pending, calls, clearedAt, qvars, nvars, rvars, avars, svars>>

\* deliverDeferredDeepLink(data)
DeliverDeferredDeepLink ==
    /\ linkOps < MaxLinkOps
    /\ \E data \in {NullLink, DeferredLink} :
        /\ cachedDeferredData' = data
        /\ deferredDelivered' = TRUE
        /\ calls' = calls \o Invocations(deferredCallbacks, "deferred", linkOps + 1,
                                         "deliver", EmptyUrl, data)
        /\ linkLast' = [LinkOp("deliverDeferredDeepLink") EXCEPT
                            !.data = data,
                            !.threw = LoopThrows(deferredCallbacks)]
    /\ linkOps' = linkOps + 1
    /\ UNCHANGED <<deferredCallbacks, deepLinkCallbacks, pending, nextReg,
                   clearedAt, qvars, nvars, rvars, avars, svars>>

\* mutant of ClearedLatch: clearCallbacks leaves the latch set
ClearedLatch_Kept == deferredDelivered

\* clearCallbacks: this.deferredDelivered = false
ClearedLatch == FALSE

\* clearCallbacks()
ClearCallbacks ==
    /\ linkOps < MaxLinkOps
    /\ deferredCallbacks' = <<>>
    /\ deepLinkCallbacks' = <<>>
    /\ deferredDelivered' = ClearedLatch
    /\ cachedDeferredData' = NullLink
    /\ clearedAt' = [reg |-> nextReg, calls |-> Len(calls)]
    /\ linkLast' = LinkOp("clearCallbacks")
    /\ linkOps' = linkOps + 1
    /\ UNCHANGED <<pending, calls, nextReg, qvars, nvars, rvars, avars, svars>>

\* mutant of TriesServer: every URL with callbacks is sent to the server
TriesServer_Always(url, localData) == TRUE

\* handleUrl: localData && url.startsWith(this.baseUrl)
TriesServer(url, localData) ==
    localData # NullLink /\ StartsWith(url, baseUrl)

\* handleDeepLink(url) up to the point where handleUrl returns; fpOk is
\* whether fingerprint.collect returns rather than throws
HandleDeepLink ==
    /\ linkOps < MaxLinkOps
    /\ \E url \in Urls :
        LET localData == ParseDeepLinkUrl(url, baseUrl)
            h == linkOps + 1
        IN
        IF url = EmptyUrl \/ deepLinkCallbacks = <<>>
        THEN /\ linkLast' = [LinkOp("handleDeepLink") EXCEPT !.url = url]
             /\ UNCHANGED <<pending, calls>>
        ELSE IF TriesServer(url, localData)
        THEN \E fpOk \in BOOLEAN :
             /\ pending' = Append(pending,
                    [h |-> h, url |-> url, localData |-> localData,
                     path |-> ResolvePath(url), fp |-> fpOk,
                     requested |-> ResolvePath(url) # <<>>,
                     regs |-> nextReg])
             /\ linkLast' = [LinkOp("handleDeepLink") EXCEPT
                                !.url = url, !.localData = localData,
                                !.fpOk = fpOk,
                                !.collected = IF ResolvePath(url) # <<>> THEN 1 ELSE 0,
                                !.requested = ResolvePath(url) # <<>>]
             /\ UNCHANGED calls
        ELSE /\ calls' = calls \o Invocations(deepLinkCallbacks, "direct", h,
                                              "local", url, localData)
             /\ linkLast' = [LinkOp("handleDeepLink") EXCEPT
                                !.url = url, !.localData = localData,
                                !.threw = LoopThrows(deepLinkCallbacks)]
             /\ UNCHANGED pending
    /\ linkOps' = linkOps + 1
    /\ UNCHANGED <<deferredCallbacks, deepLinkCallbacks, deferredDelivered,
                   cachedDeferredData, nextReg, clearedAt, qvars, nvars, rvars, avars, svars>>

\* s without its i-th element
Without(s, i) == SubSeq(s, 1, i - 1) \o SubSeq(s, i + 1, Len(s))

\* mutant of Recipients: the callbacks registered when the URL was handled
Recipients_AtCall(p) == SelectSeq(deepLinkCallbacks, LAMBDA r : r.reg < p.regs)

\* the callbacks the handlers of the resolution p loop over:
\* this.deepLinkCallbacks, read when they run
Recipients(p) == deepLinkCallbacks

\* the promise of resolveUrl settles: the .then handler delivers, and when
\* it throws the .catch handler delivers the local data
ResolutionSettles ==
    /\ linkOps < MaxLinkOps
    /\ \E i \in 1..Len(pending) :
       \E outcome \in (IF pending[i].requested THEN ResolveOutcomes ELSE {NullLink}) :
        LET p == pending[i]
            data == Delivered(ResolveUrl(outcome), p.localData)
            thenThrew == LoopThrows(Recipients(p))
        IN
        /\ calls' = calls
               \o Invocations(Recipients(p), "direct", p.h, "then", p.url, data)
               \o (IF thenThrew
                   THEN Invocations(Recipients(p), "direct", p.h, "catch",
                                    p.url, p.localData)
                   ELSE <<>>)
        /\ pending' = Without(pending, i)
        /\ linkLast' = [LinkOp("settle") EXCEPT
                            !.h = p.h, !.url = p.url, !.localData = p.localData,
                            !.fpOk = p.fp, !.outcome = outcome, !.data = data,
                            !.requested = p.requested,
                            !.threw = thenThrew, !.regs = p.regs]
    /\ linkOps' = linkOps + 1
    /\ UNCHANGED <<deferredCallbacks, deepLinkCallbacks, deferredDelivered,
                   cachedDeferredData, nextReg, clearedAt, qvars, nvars, rvars, avars, svars>>

InitLink ==
    /\ LinkIdle
    /\ SdkIdle
    /\ NetIdle
    /\ OverlapIdle
    /\ AttrIdle
    /\ QueueIdle

NextLink ==
    \/ OnDeferredDeepLink
    \/ OnDeepLink
    \/ DeliverDeferredDeepLink
    \/ ClearCallbacks
    \/ HandleDeepLink
    \/ ResolutionSettles

SpecLink == InitLink /\ [][NextLink]_vars

----------------------------------------------------------------------------
(* SpecQueue *)

\* queue.load()
QLoad ==
    \E readOk \in ReadChoices :
        Settle("load", LoadCall(QS, readOk), readOk, TRUE, MaxSteps)

\* queue.peek()
QPeek ==
    \E readOk \in ReadChoices :
        Settle("peek", LoadCall(QS, readOk), readOk, TRUE, MaxSteps)

\* queue.enqueue(event), with an event built by the caller
QEnqueue ==
    \E readOk \in ReadChoices, writeOk \in WriteChoices :
        Settle("enqueue",
               EnqueueCall(QS, [installId |-> "install-1",
                                eventName |-> <<"q">>, eventData |-> NoData,
                                timestamp |-> clock], readOk, writeOk),
               readOk, writeOk, MaxSteps)

\* queue.dequeue()
QDequeue ==
    \E readOk \in ReadChoices, writeOk \in WriteChoices :
        Settle("dequeue", DequeueCall(QS, readOk, writeOk), readOk, writeOk,
               MaxSteps)

\* queue.clear()
QClear ==
    \E writeOk \in WriteChoices : SettleClear("clear", writeOk, MaxSteps)

\* a new process: new EventQueue() over the same AsyncStorage
NewInstance ==
    /\ steps < MaxSteps
    /\ steps' = steps + 1
    /\ queue' = <<>>
    /\ loaded' = FALSE
    /\ last' = [NoCall EXCEPT !.op = "new", !.preStored = stored]
    /\ base' = <<>>
    /\ enqLog' = <<>>
    /\ deqLog' = <<>>
    /\ UNCHANGED <<stored, cachedInstallId, clock, faults, nvars, rvars, avars, lvars, svars>>

InitQ ==
    /\ InitQueue
    /\ cachedInstallId = "install-1"
    /\ NetIdle
    /\ OverlapIdle
    /\ LinkIdle
    /\ SdkIdle
    /\ AttrIdle

NextQ ==
    \/ QLoad
    \/ QPeek
    \/ QEnqueue
    \/ QDequeue
    \/ QClear
    \/ NewInstance

SpecQueue == InitQ /\ [][NextQ]_vars

----------------------------------------------------------------------------
(* SpecTracker *)

\* how the send of a new record ends, and the sends of the flush after it
FlushAfter(first) == IF first = "ok" THEN FailAfter ELSE {NoFailure}

\* tracker.trackEvent(name, properties)
DoTrackEvent ==
    \E name \in Names, first \in {"ok"} \cup SendErrors,
       readOk \in ReadChoices, writeOk \in WriteChoices :
        \E budget \in FlushAfter(first) :
            Settle("trackEvent",
                   TrackEvent(QS, cachedInstallId, name, NoData, clock, first,
                              budget, readOk, writeOk),
                   readOk, writeOk, MaxCalls)

\* tracker.trackRevenue(amount, currency, properties)
DoTrackRevenue ==
    \E amount \in Amounts, first \in {"ok"} \cup SendErrors,
       readOk \in ReadChoices, writeOk \in WriteChoices :
        \E budget \in FlushAfter(first) :
            Settle("trackRevenue",
                   TrackRevenue(QS, cachedInstallId, amount, "USD", clock,
                                first, budget, readOk, writeOk),
                   readOk, writeOk, MaxCalls)

\* tracker.flushQueue()
DoFlushQueue ==
    \E budget \in FailAfter, readOk \in ReadChoices, writeOk \in WriteChoices :
        Settle("flushQueue", FlushQueue(QS, budget, readOk, writeOk),
               readOk, writeOk, MaxCalls)

\* tracker.clearQueue()
DoClearQueue ==
    \E writeOk \in WriteChoices : SettleClear("clearQueue", writeOk, MaxCalls)

InitT ==
    /\ InitQueue
    /\ cachedInstallId \in InstallIds
    /\ NetIdle
    /\ OverlapIdle
    /\ LinkIdle
    /\ SdkIdle
    /\ AttrIdle

NextT ==
    \/ DoTrackEvent
    \/ DoTrackRevenue
    \/ DoFlushQueue
    \/ DoClearQueue

SpecTracker == InitT /\ [][NextT]_vars

----------------------------------------------------------------------------
(* Properties of the queue (SpecQueue) *)

\* C2: the queue never holds more than MAX_QUEUE_SIZE records; an enqueue
\* that finds it full returns false and leaves the queue and its persisted
\* document as they were (nothing is evicted); an enqueue that finds room
\* returns true and appends the record at the tail.
C2_Capacity ==
    /\ Len(queue) <= MAX_QUEUE_SIZE
    /\ last.op = "enqueue" =>
        IF Len(last.pre) >= MAX_QUEUE_SIZE
        THEN ~last.ret /\ queue = last.pre /\ stored = last.preStored
        ELSE last.ret /\ queue = Append(last.pre, last.ev)

\* an enqueue met a queue of exactly MAX_QUEUE_SIZE records
C2_Witness ==
    /\ last.op = "enqueue"
    /\ Len(last.pre) = MAX_QUEUE_SIZE
    /\ ~last.ret

\* C3: the queue is first-in first-out: the records dequeued so far, followed
\* by the records still queued, are the records the queue started with
\* followed by the accepted enqueues, in order; so N enqueues on an empty
\* queue followed by N dequeues return the records in enqueue order. A
\* dequeue that finds the queue empty returns null and changes neither the
\* queue nor its persisted document.
C3_Fifo ==
    /\ deqLog \o queue = base \o enqLog
    /\ (base = <<>> /\ Len(deqLog) = Len(enqLog)) => deqLog = enqLog
    /\ (last.op = "dequeue" /\ last.pre = <<>>) =>
        /\ ~last.ret
        /\ last.ev = NoEvent
        /\ queue = <<>>
        /\ stored = last.preStored

\* two enqueues on an empty queue were followed by two dequeues
C3_Witness ==
    /\ base = <<>>
    /\ Len(enqLog) = 2
    /\ deqLog = enqLog
    /\ last.op = "dequeue"
    /\ last.ret

\* a record the caller hands to enqueue
Probe == [installId |-> "install-1", eventName |-> <<"q">>,
          eventData |-> NoData, timestamp |-> clock]

\* C29: when the persistence write of enqueue, dequeue or clear fails, the
\* call still returns its normal result (enqueue true, dequeue the head
\* record, clear nothing), the in-memory queue is changed as if the write
\* had succeeded, and the persisted document is the one found.
C29_WriteFailureNotSurfaced ==
    /\ \A readOk \in BOOLEAN :
        LET t == Load(QS, readOk)
            e == Enqueue(QS, Probe, readOk, FALSE)
            d == Dequeue(QS, readOk, FALSE)
        IN
        /\ Len(t.queue) < MAX_QUEUE_SIZE =>
              /\ e.ret
              /\ e.s.queue = Append(t.queue, Probe)
              /\ e.s.stored = stored
              /\ e.s = [Enqueue(QS, Probe, readOk, TRUE).s EXCEPT !.stored = stored]
        /\ t.queue # <<>> =>
              /\ d.found
              /\ d.ev = Head(t.queue)
              /\ d.s.queue = Tail(t.queue)
              /\ d.s.stored = stored
              /\ d.s = [Dequeue(QS, readOk, TRUE).s EXCEPT !.stored = stored]
    /\ Clear(QS, FALSE) = [QS EXCEPT !.queue = <<>>]
    /\ (last.op \in {"enqueue", "dequeue"} /\ last.ret /\ stored = last.preStored) =>
          queue # last.pre
    /\ (last.op = "clear") => queue = <<>>

\* an enqueue on a loaded queue returned true although its write failed:
\* the record is in memory and the document still lacks it
C29_Witness ==
    /\ last.op = "enqueue"
    /\ last.preLoaded
    /\ last.ret
    /\ faults = 1
    /\ queue = Append(last.pre, last.ev)
    /\ stored = last.preStored
    /\ stored # Stringify(queue)

----------------------------------------------------------------------------
(* Properties of the tracker (SpecTracker) *)

\* number of times ev occurs in q
Count(ev, q) == Cardinality({i \in 1..Len(q) : q[i] = ev})

\* a trackEvent / trackRevenue call that passed its guards (a name that is
\* not blank, an amount >= 0, a cached install id) has settled
TrackSettled ==
    /\ last.op \in {"trackEvent", "trackRevenue"}
    /\ last.ev # NoEvent

\* C1 as stated: after such a call the record was sent, or it is in the
\* queue exactly once, whatever the queue held before.
C1_SentOrQueuedOnce ==
    TrackSettled =>
        \/ last.outcome = "ok" /\ last.ev \in {last.sentNow[i] : i \in 1..Len(last.sentNow)}
        \/ Count(last.ev, queue) = 1

\* C1 amended: a record that was sent is not queued; a record whose send
\* failed is appended to the queue exactly once when the queue holds fewer
\* than MAX_QUEUE_SIZE records, and is dropped, the queue left as it was,
\* when the queue holds MAX_QUEUE_SIZE records.
C1_SentOrQueuedOrDropped ==
    TrackSettled =>
        /\ last.outcome = "ok" =>
            /\ Head(last.sentNow) = last.ev
            /\ Count(last.ev, last.sentNow) = 1
            /\ Count(last.ev, queue) = 0
        /\ (last.outcome # "ok" /\ Len(last.pre) < MAX_QUEUE_SIZE) =>
            /\ last.outcome \in SendErrors
            /\ last.sentNow = <<>>
            /\ queue = Append(last.pre, last.ev)
            /\ Count(last.ev, queue) = 1
        /\ (last.outcome # "ok" /\ Len(last.pre) >= MAX_QUEUE_SIZE) =>
            /\ last.sentNow = <<>>
            /\ queue = last.pre
            /\ Count(last.ev, queue) = 0

\* a send failed while the queue held MAX_QUEUE_SIZE - 1 records, and the
\* record took the last place
C1_Witness ==
    /\ TrackSettled
    /\ last.outcome \in SendErrors
    /\ Len(last.pre) = MAX_QUEUE_SIZE - 1
    /\ Count(last.ev, queue) = 1

\* a flushQueue call has settled; n records were queued when it started,
\* k sends were attempted
FlushSettled == last.op = "flushQueue"

\* C4: flushQueue sends the queued records r1..rn in order and stops at the
\* first send that fails: if the send of rk fails, r1..rk-1 were sent and
\* stay removed, no record behind rk was attempted, and the queue is
\* rk+1..rn followed by rk; if no send fails, all were sent and the queue
\* is empty.
C4_FlushStopsAtFirstFailure ==
    FlushSettled =>
        LET n == Len(last.pre)
            k == Len(last.attempts)
        IN /\ last.outcome = "ok"
           /\ last.attempts = SubSeq(last.pre, 1, k)
           /\ IF last.budget >= n
              THEN /\ last.ret
                   /\ k = n
                   /\ last.sentNow = last.pre
                   /\ queue = <<>>
              ELSE /\ ~last.ret
                   /\ k = last.budget + 1
                   /\ last.sentNow = SubSeq(last.pre, 1, k - 1)
                   /\ queue = SubSeq(last.pre, k + 1, n) \o <<last.pre[k]>>

\* the third send of a flush of a full queue failed
C4_Witness ==
    /\ FlushSettled
    /\ Len(last.pre) = MAX_QUEUE_SIZE
    /\ ~last.ret
    /\ Len(last.attempts) = 3

\* a flush of three records r1 r2 r3 in which the send of r2 failed
FlushOfThreeSecondFails ==
    /\ FlushSettled
    /\ Len(last.pre) = 3
    /\ last.budget = 1

\* C5 as stated: after such a flush the queue holds exactly one record, the
\* failed one; one send succeeded; the third record was not attempted.
C5_OneRecordLeft ==
    FlushOfThreeSecondFails =>
        /\ Len(queue) = 1
        /\ queue[Len(queue)] = last.pre[2]
        /\ Len(last.sentNow) = 1
        /\ Count(last.pre[3], last.attempts) = 0

\* C5 amended: after such a flush the queue holds exactly two records, the
\* third one, which was not attempted, followed by the failed one; exactly
\* one send succeeded, that of the first record.
C5_TwoRecordsLeft ==
    FlushOfThreeSecondFails =>
        /\ queue = <<last.pre[3], last.pre[2]>>
        /\ last.sentNow = <<last.pre[1]>>
        /\ last.attempts = <<last.pre[1], last.pre[2]>>
        /\ Count(last.pre[3], last.attempts) = 0

\* such a flush has happened
C5_Witness ==
    /\ FlushOfThreeSecondFails
    /\ ~last.ret
    /\ Len(last.sentNow) = 1

----------------------------------------------------------------------------
(* Claims about the transport, checked under SpecNet *)

\* what an attempt met, read off the response alone
Success(resp) ==
    resp.kind = "http" /\ resp.status \in 200..299 /\ resp.json # "bad"
ServerOrTransport(resp) ==
    resp.kind = "throw" \/ (resp.kind = "http" /\ resp.status >= 500)
ClientError(resp) ==
    resp.kind = "http" /\ resp.status >= 400 /\ resp.status < 500
Undecodable(resp) ==
    resp.kind = "http" /\ resp.status \in 200..299 /\ resp.json = "bad"

\* C6: a request makes at most 3 attempts; a successful attempt is the last
\* one and its body is what the request returns; a 5xx response or a
\* transport failure on attempt 1 or 2 never settles the request: the request
\* waits and the attempt after it is the next one of the loop.
C6_AtMostThreeAttempts ==
    /\ Len(fetches) <= 3
    /\ \A i \in 1..Len(fetches) :
        /\ Success(fetches[i]) =>
              /\ i = Len(fetches)
              /\ netPc = "done"
              /\ netResult = [kind |-> "return", body |-> fetches[i].json,
                              err |-> NoError]
        /\ (i < 3 /\ ServerOrTransport(fetches[i]) /\ i = Len(fetches)) =>
              /\ netPc \in {"delay", "attempt"}
              /\ netResult.kind = "none"
    /\ netResult.kind = "return" =>
          (fetches # <<>> /\ Success(fetches[Len(fetches)]))
    /\ netPc = "delay" => (attempt = Len(fetches) /\ attempt < 3)
    /\ netPc = "attempt" => (attempt = Len(fetches) + 1 /\ attempt <= 3)

C6_Witness ==
    /\ netPc = "done"
    /\ Len(fetches) = 3
    /\ fetches[1].kind = "throw"
    /\ fetches[2].kind = "http" /\ fetches[2].status = 503
    /\ Success(fetches[3])
    /\ netResult.kind = "return" /\ netResult.body = fetches[3].json

\* all 3 attempts of a settled request met a 5xx status or a transport failure
ExhaustedRequest ==
    /\ netPc = "done"
    /\ Len(fetches) = 3
    /\ \A i \in 1..3 : ServerOrTransport(fetches[i])

\* C7 as stated: a request whose 5xx or transport failures exhaust all 3
\* attempts fails with NETWORK_ERROR, whatever the last attempt met.
C7_UniformNetworkError ==
    ExhaustedRequest =>
        /\ netResult.kind = "throw"
        /\ netResult.err.code = "NETWORK_ERROR"

\* C7 amended: such a request fails with the failure of its last attempt as
\* that attempt raised it: NETWORK_ERROR wrapping the cause when fetch failed,
\* INVALID_RESPONSE carrying the status when the last response was a 5xx.
C7_LastFailureAsRaised ==
    ExhaustedRequest =>
        /\ netResult.kind = "throw"
        /\ IF fetches[3].kind = "throw"
           THEN /\ netResult.err.code = "NETWORK_ERROR"
                /\ netResult.err.cause = "fetch failed"
           ELSE /\ netResult.err.code = "INVALID_RESPONSE"
                /\ StatusOf(netResult.err) = fetches[3].status

C7_Witness ==
    /\ ExhaustedRequest
    /\ fetches[1].kind = "throw"
    /\ fetches[3].kind = "http" /\ fetches[3].status = 500
    /\ netResult.err.code = "INVALID_RESPONSE"

\* C8: an attempt that meets a status in [400,500) or an undecodable 2xx body
\* is the last attempt of its request, whichever attempt it is: the request
\* is settled with INVALID_RESPONSE carrying that status, or with
\* DECODING_ERROR, and the only waits are those before it.
C8_NonRetryableEndsRequest ==
    \A i \in 1..Len(fetches) :
        /\ ClientError(fetches[i]) =>
              /\ i = Len(fetches)
              /\ netPc = "done"
              /\ netResult.kind = "throw"
              /\ netResult.err.code = "INVALID_RESPONSE"
              /\ StatusOf(netResult.err) = fetches[i].status
              /\ Len(delays) = i - 1
        /\ Undecodable(fetches[i]) =>
              /\ i = Len(fetches)
              /\ netPc = "done"
              /\ netResult.kind = "throw"
              /\ netResult.err.code = "DECODING_ERROR"
              /\ Len(delays) = i - 1

C8_Witness ==
    /\ netPc = "done"
    /\ Len(fetches) = 2
    /\ fetches[1].kind = "http" /\ fetches[1].status = 500
    /\ ClientError(fetches[2]) /\ fetches[2].status = 400
    /\ netResult.err.code = "INVALID_RESPONSE"
    /\ Len(delays) = 1

\* the status codes of the responses of a request, 0 for a failed fetch
StatusCodes(fs) == [i \in 1..Len(fs) |-> fs[i].status]

\* C9: the waits of a request are 1000 ms after attempt 1 and 2000 ms after
\* attempt 2 and there is none after the last attempt; the decodable
\* responses 500, 500, 200 give 3 calls, the waits 1000 and 2000, and the
\* body of the 200; the request is not settled before the third call.
C9_BackoffDelays ==
    /\ Len(delays) <= 2
    /\ \A i \in 1..Len(delays) : delays[i] = IF i = 1 THEN 1000 ELSE 2000
    /\ Len(delays) = IF netPc = "done" THEN Len(fetches) - 1 ELSE Len(fetches)
    /\ (StatusCodes(fetches) \in {<<500>>, <<500, 500>>}) => netPc # "done"
    /\ (StatusCodes(fetches) = <<500, 500, 200>> /\ fetches[3].json # "bad") =>
          /\ netPc = "done"
          /\ delays = <<1000, 2000>>
          /\ netResult = [kind |-> "return", body |-> fetches[3].json,
                          err |-> NoError]

C9_Witness ==
    /\ StatusCodes(fetches) = <<500, 500, 200>>
    /\ fetches[3].json = "body-1"
    /\ netResult.kind = "return" /\ netResult.body = "body-1"
    /\ delays = <<1000, 2000>>

----------------------------------------------------------------------------
(* Claims about attribution, checked under SpecAttr *)

\* the link data the storage held before the last call, as a read gives it
CachedLinkBefore ==
    IF attrLast.readOk /\ attrLast.pre.installData.kind = "json"
    THEN attrLast.pre.installData.val
    ELSE NullLink

\* C10: a reportInstall that finds the launch flag persisted issues no
\* request and collects no fingerprint, leaves the storage as it was, and
\* returns the cached id (or ""), attributed exactly when cached link data
\* was read, a score of 100 when attributed and 0 otherwise, and no matched
\* factors.
C10_RepeatLaunchFromStorage ==
    (attrLast.op = "reportInstall" /\ attrLast.pre.launched) =>
        /\ attrLast.posts = 0
        /\ attrLast.collects = 0
        /\ Storage = attrLast.pre
        /\ attrLast.result.installId =
              (IF attrLast.pre.installId = NullId THEN ""
               ELSE attrLast.pre.installId)
        /\ attrLast.result.attributed = (CachedLinkBefore # NullLink)
        /\ attrLast.result.confidenceScore =
              (IF attrLast.result.attributed THEN 100 ELSE 0)
        /\ attrLast.result.matchedFactors = <<>>

\* a first launch cached an id and link data, and a second call returned them
C10_Witness ==
    /\ launches = 2
    /\ posts = 1
    /\ collects = 1
    /\ attrLast.op = "reportInstall"
    /\ attrLast.pre.launched
    /\ attrLast.result.installId = "inst-A"
    /\ attrLast.result.attributed
    /\ attrLast.result.confidenceScore = 100

\* the last call was a reportInstall on a first launch
FirstLaunchCall == attrLast.op = "reportInstall" /\ ~attrLast.pre.launched

\* C11: a first-launch reportInstall whose request fails returns the organic
\* result, leaves install id and link data unpersisted, and sets the launch
\* flag.
C11_OrganicOnFailure ==
    (FirstLaunchCall /\ attrLast.out = RequestThrows) =>
        /\ attrLast.result = [installId |-> "", attributed |-> FALSE,
                              confidenceScore |-> 0, matchedFactors |-> <<>>,
                              deepLinkData |-> NullLink]
        /\ stInstallId = NullId
        /\ stInstallData = NoLinkDoc
        /\ stLaunched

C11_Witness ==
    /\ FirstLaunchCall
    /\ attrLast.out = RequestThrows
    /\ attrLast.posts = 1
    /\ stLaunched
    /\ attrLast.result.installId = ""

\* what reading an optional field gives: undefined when it is left out
Reads(v) == IF v \in {Absent, Undefined} THEN Absent ELSE v

\* customParameters of the normalized link data: the legacy field's value
\* when the legacy field has one, the original customParameters otherwise
NormalizedParams(d) ==
    IF d.deepLinkParameters \notin {Absent, Null} THEN d.deepLinkParameters
    ELSE Reads(d.customParameters)

\* C12: after a first-launch reportInstall whose request succeeded, the
\* install id is stored exactly when the response's id is non-empty; link
\* data is stored exactly when the response is attributed and carries link
\* data (and the write to storage went through), and then the stored and the
\* returned link data are the response's with customParameters normalized;
\* otherwise the response is returned as it came; the launch flag is set.
C12_PersistOnSuccess ==
    (FirstLaunchCall /\ attrLast.out # RequestThrows) =>
        LET out == attrLast.out
            res == attrLast.result
            cached == out.attributed /\ out.deepLinkData # NullLink
        IN  /\ stInstallId = (IF out.installId # "" THEN out.installId ELSE NullId)
            /\ (stInstallData.kind = "json") <=> (cached /\ attrLast.saveOk)
            /\ ~(cached /\ attrLast.saveOk) => stInstallData = NoLinkDoc
            /\ (cached /\ attrLast.saveOk) =>
                  /\ stInstallData.val.shortCode = out.deepLinkData.shortCode
                  /\ Reads(stInstallData.val.customParameters) =
                        NormalizedParams(out.deepLinkData)
            /\ cached =>
                  /\ res.deepLinkData.shortCode = out.deepLinkData.shortCode
                  /\ Reads(res.deepLinkData.customParameters) =
                        NormalizedParams(out.deepLinkData)
            /\ ~cached => res = out
            /\ res.installId = out.installId
            /\ res.attributed = out.attributed
            /\ res.confidenceScore = out.confidenceScore
            /\ res.matchedFactors = out.matchedFactors
            /\ stLaunched

\* both fields were set in the response: the legacy value was stored
C12_Witness ==
    /\ FirstLaunchCall
    /\ attrLast.out # RequestThrows
    /\ attrLast.out.attributed
    /\ attrLast.out.deepLinkData.customParameters = "cp"
    /\ attrLast.out.deepLinkData.deepLinkParameters = "dlp"
    /\ stInstallData.kind = "json"
    /\ stInstallData.val.customParameters = "dlp"
    /\ attrLast.result.deepLinkData.customParameters = "dlp"
    /\ stInstallId = "inst-B"
    /\ stLaunched

\* a repeat launch after a first launch on the same storage, with the cached
\* link data written and read back without a storage failure
RepeatAfterFirst ==
    /\ attrLast.op = "reportInstall"
    /\ attrLast.pre.launched
    /\ firstCall.op = "reportInstall"
    /\ firstCall.saveOk
    /\ attrLast.readOk
    /\ attrLast.pre.installData.kind # "corrupt"

\* two link data are the same when their fields read the same
SameLink(a, b) ==
    /\ a.shortCode = b.shortCode
    /\ Reads(a.customParameters) = Reads(b.customParameters)
    /\ Reads(a.deepLinkParameters) = Reads(b.deepLinkParameters)

SameResult(a, b) ==
    /\ a.installId = b.installId
    /\ a.attributed = b.attributed
    /\ SameLink(a.deepLinkData, b.deepLinkData)

\* C13 as stated: the result of a repeat launch has the installId, the
\* attributed flag and the link data of the result the first launch
\* returned, whatever response the first launch received.
C13_RepeatEqualsFirst ==
    RepeatAfterFirst => SameResult(attrLast.result, firstCall.result)

\* C13 amended: that holds when the first launch's request failed or its
\* response was attributed exactly when it carried link data.
C13_RepeatEqualsFirstIfConsistent ==
    (/\ RepeatAfterFirst
     /\ firstCall.out.attributed = (firstCall.out.deepLinkData # NullLink)) =>
        SameResult(attrLast.result, firstCall.result)

C13_Witness ==
    /\ RepeatAfterFirst
    /\ firstCall.out # RequestThrows
    /\ firstCall.out.attributed
    /\ firstCall.out.deepLinkData # NullLink
    /\ firstCall.out.deepLinkData.deepLinkParameters = Null
    /\ firstCall.out.installId = ""
    /\ attrLast.result.attributed
    /\ attrLast.result.installId = ""

----------------------------------------------------------------------------
(* Claims about the deep-link handler, checked under SpecLink *)

\* the invocations the last operation made
NewCalls == SubSeq(calls, linkLast.preCalls + 1, Len(calls))

\* C14: onDeferredDeepLink appends the callback to the deferred registry;
\* when the latch was set it invokes that callback once, within the call,
\* with the latched payload (null for organic), and when the latch was unset
\* the call invokes nothing.
C14_LateRegistrantGetsLatched ==
    linkLast.op = "onDeferredDeepLink" =>
        /\ deferredCallbacks =
              Append(linkLast.preDeferred, [fn |-> linkLast.fn, reg |-> nextReg - 1])
        /\ IF linkLast.preDelivered
           THEN /\ Len(NewCalls) = 1
                /\ NewCalls[1].reg = nextReg - 1
                /\ NewCalls[1].fn = linkLast.fn
                /\ NewCalls[1].kind = "deferred"
                /\ NewCalls[1].h = linkLast.h
                /\ NewCalls[1].data = linkLast.preCached
           ELSE NewCalls = <<>>

\* a callback registered after an organic delivery was called with null
C14_Witness ==
    /\ linkLast.op = "onDeferredDeepLink"
    /\ linkLast.preDelivered
    /\ linkLast.preCached = NullLink
    /\ linkLast.fn = "f"
    /\ Len(NewCalls) = 1
    /\ NewCalls[1].data = NullLink

\* the last operation was a deliverDeferredDeepLink with callbacks registered
Redelivery ==
    /\ linkLast.op = "deliverDeferredDeepLink"
    /\ linkLast.preDelivered
    /\ linkLast.preDeferred # <<>>

Host(url) ==
    IF IndexOf(url, "://") = 0 THEN <<>>
    ELSE LET rest == From(url, IndexOf(url, "://") + 1) IN
         IF IndexOf(rest, "/") = 0 THEN rest
         ELSE SubSeq(rest, 1, IndexOf(rest, "/") - 1)

\* the last handleDeepLink delivered the local result to the callbacks
\* registered, up to the first that throws, and started no resolution
LocalDelivery(data) ==
    /\ ~linkLast.requested
    /\ linkLast.collected = 0
    /\ pending = <<>> \/ pending[Len(pending)].h # linkLast.h
    /\ NewCalls # <<>>
    /\ Len(NewCalls) <= Len(linkLast.preDirect)
    /\ \A i \in 1..Len(NewCalls) :
          /\ NewCalls[i].reg = linkLast.preDirect[i].reg
          /\ NewCalls[i].url = linkLast.url
          /\ NewCalls[i].data = data
          /\ NewCalls[i].phase = "local"

\* the last handleDeepLink did nothing at all
NoEffect ==
    /\ ~linkLast.requested
    /\ linkLast.collected = 0
    /\ NewCalls = <<>>
    /\ pending = <<>> \/ pending[Len(pending)].h # linkLast.h

\* the request condition of C16, common to both readings
RequestIffParses ==
    /\ linkLast.requested <=>
          /\ linkLast.url # EmptyUrl
          /\ linkLast.preDirect # <<>>
          /\ ParseDeepLinkUrl(linkLast.url, baseUrl) # NullLink
    /\ linkLast.requested =>
          /\ NewCalls = <<>>
          /\ pending # <<>>
          /\ pending[Len(pending)].h = linkLast.h
    /\ (linkLast.url = EmptyUrl \/ linkLast.preDirect = <<>>) => NoEffect

C17_OneRoundPerUrl ==
    \A i, j \in 1..Len(calls) :
        (/\ calls[i].kind = "direct"
         /\ calls[j].kind = "direct"
         /\ calls[i].h = calls[j].h
         /\ calls[i].reg = calls[j].reg) => i = j

\* the first round of deliveries of a settled resolution
ThenCalls == SelectSeq(NewCalls, LAMBDA e : e.phase = "then")

\* C18 as stated: a settled resolution delivers the resolved data when the
\* request succeeded with non-null data, and the local data when the request
\* succeeded with null, when it failed, and when the fingerprint collection
\* failed; starting a resolution throws nothing.
C18_FallbackOnAnyFailure ==
    /\ (linkLast.op = "handleDeepLink" /\ linkLast.requested) => ~linkLast.threw
    /\ (linkLast.op = "settle" /\ linkLast.requested) =>
          \A i \in 1..Len(ThenCalls) :
              ThenCalls[i].data =
                  IF linkLast.outcome = ServerLink /\ linkLast.fpOk
                  THEN ServerLink ELSE linkLast.localData

\* C18 amended: the same, except that a failed fingerprint collection does
\* not change what is delivered: the request is made without the fingerprint
\* parameters and its outcome decides.
C18_FallbackOnRequestFailure ==
    /\ (linkLast.op = "handleDeepLink" /\ linkLast.requested) => ~linkLast.threw
    /\ (linkLast.op = "settle" /\ linkLast.requested) =>
          /\ ThenCalls # <<>> <=> linkLast.preDirect # <<>>
          /\ \A i \in 1..Len(ThenCalls) :
              /\ ThenCalls[i].url = linkLast.url
              /\ ThenCalls[i].data =
                    IF linkLast.outcome = ServerLink
                    THEN ServerLink ELSE linkLast.localData

\* a resolution whose fingerprint collection failed delivered server data
C18_Witness ==
    /\ linkLast.op = "settle"
    /\ linkLast.requested
    /\ ~linkLast.fpOk
    /\ linkLast.outcome = ServerLink
    /\ ThenCalls # <<>>
    /\ ThenCalls[1].data = ServerLink

\* C19: after clearCallbacks both registries are empty, the latch is unset
\* and the payload is cleared; a callback registered since the last
\* clearCallbacks has only been invoked if a delivery set the latch again,
\* and every invocation made since the last clearCallbacks is one of a
\* callback registered since.
C19_ClearForgetsEverything ==
    /\ linkLast.op = "clearCallbacks" =>
          /\ deferredCallbacks = <<>>
          /\ deepLinkCallbacks = <<>>
          /\ ~deferredDelivered
          /\ cachedDeferredData = NullLink
    /\ ~deferredDelivered =>
          \A i \in 1..Len(calls) :
              calls[i].kind = "deferred" => calls[i].reg < clearedAt.reg
    /\ \A i \in 1..Len(calls) :
          i > clearedAt.calls => calls[i].reg >= clearedAt.reg

\* after a delivery and a clearCallbacks, a new registrant was not invoked
C19_Witness ==
    /\ linkLast.op = "onDeferredDeepLink"
    /\ clearedAt.calls >= 1
    /\ clearedAt.reg = 2
    /\ nextReg = 3
    /\ Len(calls) = clearedAt.calls
    /\ ~deferredDelivered

----------------------------------------------------------------------------
(* SpecSdk: the facade over the event tracker, the attribution manager and
   the deep link handler. One initialize call is followed through its two
   awaits; reset and the guarded methods may run between them. *)

\* the calls made so far: on the facade, on its handler and on its tracker
\* (linkOps also counts the deferred delivery of each finished initialize)
SdkBudget == sdkLast.calls + (linkOps - launches) + steps < MaxSdkOps

\* what the facade did last, when a call was made; resets counts the reset
\* calls so far, accepted the initialize calls accepted since the last one
SdkCall(method, error) ==
    [method |-> method, error |-> error, seq |-> sdkOps + 1,
     resets |-> sdkLast.resets, requests |-> 0, step |-> "call",
     calls |-> sdkLast.calls + 1, accepted |-> sdkLast.accepted,
     alone |-> TRUE, at |-> <<linkOps, steps>>]

\* what the facade did last, when a pending call went on after an await
SdkResume(method, error) ==
    [SdkCall(method, error) EXCEPT !.step = "resume", !.calls = sdkLast.calls]


\* the install report answers the facade's run gets from the server
SdkInstallOutcomes ==
    { RequestThrows,
      [installId |-> "inst-A", attributed |-> TRUE, confidenceScore |-> 85,
       matchedFactors |-> <<"ip", "timezone">>,
       deepLinkData |-> [shortCode |-> "abc", customParameters |-> "cp",
                         deepLinkParameters |-> Absent]],
      [installId |-> "inst-A", attributed |-> FALSE, confidenceScore |-> 0,
       matchedFactors |-> <<>>, deepLinkData |-> NullLink] }

\* initialize(config) up to its first await: the guard, validateConfig,
\* this.config = config, and the load of a new EventQueue is started
SdkInitialize ==
    /\ SdkBudget
    /\ sdkInit \/ inits = <<>>
    /\ \E config \in Configs :
        IF sdkInit
        THEN /\ sdkLast' = SdkCall("initialize", "ALREADY_INITIALIZED")
             /\ UNCHANGED <<sdkConfig, inits>>
        ELSE IF ~ValidateConfig(config)
        THEN /\ sdkLast' = SdkCall("initialize", "INVALID_CONFIGURATION")
             /\ UNCHANGED <<sdkConfig, inits>>
        ELSE /\ sdkConfig' = config
             /\ inits' = Append(inits, [pc |-> "loading", gen |-> 0])
             /\ sdkLast' = [SdkCall("initialize", "pending") EXCEPT
                                !.accepted = sdkLast.accepted + 1]
    /\ sdkOps' = sdkOps + 1
    /\ UNCHANGED <<sdkInit, sdkNetwork, sdkAttribution, sdkHandler, sdkTracker,
                   clearing, handlerGen, listeners, qvars, nvars, rvars, avars, lvars>>

\* initialize after eventQueue.load(): the managers are stored, the flag is
\* set and reportInstall is called
SdkLoaded ==
    /\ \E i \in 1..Len(inits) :
        /\ inits[i].pc = "loading"
        /\ inits' = [inits EXCEPT ![i] = [pc |-> "reporting",
                                          gen |-> handlerGen + 1]]
    /\ LET s == Load([queue |-> <<>>, loaded |-> FALSE, stored |-> stored], TRUE)
       IN /\ queue' = s.queue
          /\ loaded' = s.loaded
          /\ base' = s.queue
          /\ last' = [NoCall EXCEPT !.op = "load", !.pre = s.queue,
                                    !.preStored = stored]
    /\ enqLog' = <<>>
    /\ deqLog' = <<>>
    /\ sdkNetwork' = TRUE
    /\ sdkAttribution' = TRUE
    /\ sdkTracker' = TRUE
    /\ sdkHandler' = TRUE
    /\ sdkInit' = TRUE
    /\ handlerGen' = handlerGen + 1
    /\ deferredCallbacks' = <<>>
    /\ deepLinkCallbacks' = <<>>
    /\ deferredDelivered' = FALSE
    /\ cachedDeferredData' = NullLink
    /\ pending' = <<>>
    /\ clearedAt' = [reg |-> nextReg, calls |-> Len(calls)]
    /\ linkLast' = LinkOp("new")
    /\ sdkLast' = SdkResume("initialize", "pending")
    /\ sdkOps' = sdkOps + 1
    /\ UNCHANGED <<sdkConfig, clearing, listeners, calls, nextReg, linkOps, stored,
                   cachedInstallId, clock, steps, faults, nvars, rvars, avars>>

\* mutant of DeferredPayload: initialize always delivers null
DeferredPayload_Null(response) == NullLink

\* response.attributed && response.deepLinkData ? response.deepLinkData : null
DeferredPayload(response) ==
    IF response.attributed /\ response.deepLinkData # NullLink
    THEN response.deepLinkData
    ELSE NullLink

\* initialize after reportInstall: the deferred delivery on the handler this
\* call created, then startListening, which a throwing callback skips
SdkReported ==
    /\ \E i \in 1..Len(inits), out \in SdkInstallOutcomes :
        LET r == ReportInstall(Storage, out, TRUE, TRUE)
            data == DeferredPayload(r.result)
            threw == LoopThrows(deferredCallbacks)
        IN
        /\ inits[i].pc = "reporting"
        /\ inits[i].gen = handlerGen
        /\ inits' = Without(inits, i)
        /\ stInstallId' = r.st.installId
        /\ stInstallData' = r.st.installData
        /\ stLaunched' = r.st.launched
        /\ cachedInstallId' = r.st.installId
        /\ posts' = posts + r.posts
        /\ collects' = collects + r.collects
        /\ attrLast' = [op |-> "reportInstall", pre |-> Storage, out |-> out,
                        readOk |-> TRUE, saveOk |-> TRUE,
                        result |-> r.result, posts |-> r.posts,
                        collects |-> r.collects]
        /\ firstCall' = IF IsFirstLaunch(Storage) THEN attrLast' ELSE firstCall
        /\ cachedDeferredData' = data
        /\ deferredDelivered' = TRUE
        /\ calls' = calls \o Invocations(deferredCallbacks, "deferred",
                                         linkOps + 1, "deliver", EmptyUrl, data)
        /\ linkLast' = [LinkOp("deliverDeferredDeepLink") EXCEPT
                            !.data = data, !.threw = threw]
        /\ listeners' = IF threw THEN listeners
                        ELSE listeners \cup {handlerGen}
        /\ sdkLast' = [SdkResume("initialize",
                                 IF threw THEN "callback threw" ELSE "none")
                            EXCEPT !.at = <<linkOps + 1, steps>>]
    /\ launches' = launches + 1
    /\ linkOps' = linkOps + 1
    /\ sdkOps' = sdkOps + 1
    /\ UNCHANGED <<sdkInit, sdkConfig, sdkNetwork, sdkAttribution, sdkHandler,
                   sdkTracker, clearing, handlerGen, deferredCallbacks,
                   deepLinkCallbacks,
                   pending, nextReg, clearedAt, queue, loaded, stored, clock,
                   last, base, enqLog, deqLog, steps, faults, nvars, rvars>>

\* reset(): cleanup of the handler if there is one, then every field is
\* nulled and the flag is unset
SdkReset ==
    /\ SdkBudget
    /\ IF sdkHandler
       THEN /\ listeners' = listeners \ {handlerGen}
            /\ deferredCallbacks' = <<>>
            /\ deepLinkCallbacks' = <<>>
            /\ deferredDelivered' = ClearedLatch
            /\ cachedDeferredData' = NullLink
            /\ clearedAt' = [reg |-> nextReg, calls |-> Len(calls)]
            /\ linkLast' = LinkOp("clearCallbacks")
       ELSE UNCHANGED <<listeners, deferredCallbacks, deepLinkCallbacks,
                        deferredDelivered, cachedDeferredData, clearedAt,
                        linkLast>>
    /\ sdkConfig' = NullConfig
    /\ sdkNetwork' = FALSE
    /\ sdkAttribution' = FALSE
    /\ sdkHandler' = FALSE
    /\ sdkTracker' = FALSE
    /\ sdkInit' = FALSE
    /\ sdkLast' = [SdkCall("reset", "none") EXCEPT
                        !.resets = sdkLast.resets + 1, !.accepted = 0]
    /\ sdkOps' = sdkOps + 1
    /\ UNCHANGED <<inits, clearing, handlerGen, pending, calls, nextReg, linkOps, qvars,
                   nvars, rvars, avars>>

\* a guarded method whose guard throws LinkFortyError.notInitialized()
SdkRejected ==
    /\ SdkBudget
    /\ \E method \in GuardedMethods :
        /\ ~Guard(method)
        /\ sdkLast' = SdkCall(method, "NOT_INITIALIZED")
    /\ sdkOps' = sdkOps + 1
    /\ UNCHANGED <<sdkInit, sdkConfig, sdkNetwork, sdkAttribution, sdkHandler,
                   sdkTracker, inits, clearing, handlerGen, listeners, qvars,
                   nvars, rvars, avars, lvars>>

\* onDeferredDeepLink(callback)
SdkOnDeferredDeepLink ==
    SdkBudget /\ Guard("onDeferredDeepLink") /\ OnDeferredDeepLink

\* onDeepLink(callback)
SdkOnDeepLink ==
    SdkBudget /\ Guard("onDeepLink") /\ OnDeepLink

\* handleDeepLink(url)
SdkHandleDeepLink ==
    SdkBudget /\ Guard("handleDeepLink") /\ HandleDeepLink

\* the listener startListening added receives a URL from the system
SdkUrlEvent ==
    SdkBudget /\ handlerGen \in listeners /\ HandleDeepLink

\* a resolution started by the current handler settles
SdkResolutionSettles ==
    pending # <<>> /\ ResolutionSettles

\* trackEvent(name, properties)
SdkTrackEvent ==
    SdkBudget /\ Guard("trackEvent") /\ DoTrackEvent

\* trackRevenue(amount, currency, properties)
SdkTrackRevenue ==
    SdkBudget /\ Guard("trackRevenue") /\ DoTrackRevenue

\* flushEvents()
SdkFlushEvents ==
    SdkBudget /\ Guard("flushEvents") /\ DoFlushQueue

\* clearEventQueue()
SdkClearEventQueue ==
    SdkBudget /\ Guard("clearEventQueue") /\ DoClearQueue

\* createLink(options) once its guard has passed; this.config! and
\* this.networkManager! are dereferenced without a check
SdkCreateLink ==
    /\ SdkBudget
    /\ Guard("createLink")
    /\ \E ok \in BOOLEAN :
        sdkLast' =
            IF sdkConfig = NullConfig \/ (sdkConfig.apiKey /\ ~sdkNetwork)
            THEN SdkCall("createLink", "TypeError")
            ELSE IF ~sdkConfig.apiKey
            THEN SdkCall("createLink", "MISSING_API_KEY")
            ELSE [SdkCall("createLink", IF ok THEN "none" ELSE "NETWORK_ERROR")
                     EXCEPT !.requests = 1]
    /\ sdkOps' = sdkOps + 1
    /\ UNCHANGED <<sdkInit, sdkConfig, sdkNetwork, sdkAttribution, sdkHandler,
                   sdkTracker, inits, clearing, handlerGen, listeners, qvars,
                   nvars, rvars, avars, lvars>>

\* clearData() up to its first await: attributionManager?.clearData(),
\* whose multiRemove is handed to AsyncStorage
SdkClearData ==
    /\ SdkBudget
    /\ clearing' = Append(clearing, [pc |-> "attribution",
                                     stamp |-> <<sdkOps + 1, linkOps, steps>>,
                                     alone |-> clearing = <<>> /\ inits = <<>>,
                                     init |-> sdkInit])
    /\ IF sdkAttribution
       THEN /\ stInstallId' = NullId
            /\ stInstallData' = NoLinkDoc
            /\ stLaunched' = FALSE
            /\ stored' = ClearedQueueDoc
            /\ cachedInstallId' = NullId
            /\ firstCall' = NoAttrCall
            /\ attrLast' = [NoAttrCall EXCEPT !.op = "clearData", !.pre = Storage]
            /\ last' = [NoCall EXCEPT !.op = "clearAll", !.pre = queue,
                                      !.preStored = stored, !.preLoaded = loaded]
       ELSE UNCHANGED <<stInstallId, stInstallData, stLaunched, stored,
                        cachedInstallId, firstCall, attrLast, last>>
    /\ sdkLast' = SdkCall("clearData", "pending")
    /\ sdkOps' = sdkOps + 1
    /\ UNCHANGED <<sdkInit, sdkConfig, sdkNetwork, sdkAttribution, sdkHandler,
                   sdkTracker, inits, handlerGen, listeners, posts, collects,
                   launches, queue, loaded, clock, base, enqLog, deqLog, steps,
                   faults, nvars, rvars, lvars>>

\* clearData after attributionManager?.clearData(): eventTracker?.clearQueue()
SdkClearQueue ==
    /\ \E i \in 1..Len(clearing) :
        /\ clearing[i].pc = "attribution"
        /\ clearing' = [clearing EXCEPT ![i].pc = "queue"]
    /\ IF sdkTracker
       THEN /\ queue' = Clear(QS, TRUE).queue
            /\ stored' = Clear(QS, TRUE).stored
            /\ last' = [NoCall EXCEPT !.op = "clearQueue", !.pre = queue,
                                      !.preStored = stored, !.preLoaded = loaded]
            /\ base' = <<>>
            /\ enqLog' = <<>>
            /\ deqLog' = <<>>
       ELSE UNCHANGED <<queue, stored, last, base, enqLog, deqLog>>
    /\ sdkLast' = SdkResume("clearData", "pending")
    /\ sdkOps' = sdkOps + 1
    /\ UNCHANGED <<sdkInit, sdkConfig, sdkNetwork, sdkAttribution, sdkHandler,
                   sdkTracker, inits, handlerGen, listeners, loaded,
                   cachedInstallId, clock, steps, faults, nvars, rvars, avars, lvars>>

\* clearData after eventTracker?.clearQueue(): deepLinkHandler?.clearCallbacks()
\* and the call settles
SdkClearCallbacks ==
    /\ \E i \in 1..Len(clearing) :
        /\ clearing[i].pc = "queue"
        /\ clearing' = Without(clearing, i)
        /\ sdkLast' = [SdkResume("clearData", "none") EXCEPT
                            !.alone = /\ clearing[i].alone
                                      /\ clearing[i].init
                                      /\ clearing[i].stamp =
                                            <<sdkOps - 1, linkOps, steps>>]
    /\ IF sdkHandler
       THEN /\ deferredCallbacks' = <<>>
            /\ deepLinkCallbacks' = <<>>
            /\ deferredDelivered' = ClearedLatch
            /\ cachedDeferredData' = NullLink
            /\ clearedAt' = [reg |-> nextReg, calls |-> Len(calls)]
            /\ linkLast' = LinkOp("clearCallbacks")
       ELSE UNCHANGED <<deferredCallbacks, deepLinkCallbacks, deferredDelivered,
                        cachedDeferredData, clearedAt, linkLast>>
    /\ sdkOps' = sdkOps + 1
    /\ UNCHANGED <<sdkInit, sdkConfig, sdkNetwork, sdkAttribution, sdkHandler,
                   sdkTracker, inits, handlerGen, listeners, pending, calls,
                   nextReg, linkOps, qvars, nvars, rvars, avars>>

InitSdk ==
    /\ SdkIdle
    /\ LinkIdle
    /\ NetIdle
    /\ OverlapIdle
    /\ AttrIdle
    /\ queue = <<>>
    /\ loaded = FALSE
    /\ stored \in {NoDoc, Stringify(OldQueue(1))}
    /\ cachedInstallId = NullId
    /\ clock = MAX_QUEUE_SIZE + 1
    /\ last = NoCall
    /\ base = <<>>
    /\ enqLog = <<>>
    /\ deqLog = <<>>
    /\ steps = 0
    /\ faults = MaxFaults

NextSdk ==
    \/ SdkInitialize
    \/ SdkLoaded
    \/ SdkReported
    \/ SdkReset
    \/ SdkRejected
    \/ SdkOnDeferredDeepLink
    \/ SdkOnDeepLink
    \/ SdkHandleDeepLink
    \/ SdkUrlEvent
    \/ SdkResolutionSettles
    \/ SdkTrackEvent
    \/ SdkTrackRevenue
    \/ SdkFlushEvents
    \/ SdkClearEventQueue
    \/ SdkCreateLink
    \/ SdkClearData
    \/ SdkClearQueue
    \/ SdkClearCallbacks

SpecSdk == InitSdk /\ [][NextSdk]_vars

----------------------------------------------------------------------------
(* Properties of the facade (SpecSdk) *)

\* what a call can be seen to have done: registrations, invocations, the
\* queue and its document, the install storage, and requests
Observable ==
    <<deferredCallbacks, deepLinkCallbacks, calls, queue, stored,
      stInstallId, stInstallData, stLaunched, posts, collects>>

\* the fields of the facade
SdkFields ==
    <<sdkInit, sdkConfig, sdkNetwork, sdkAttribution, sdkHandler, sdkTracker>>

\* C20: while the SDK is not initialized, every call of onDeferredDeepLink,
\* onDeepLink, handleDeepLink, trackEvent, trackRevenue, flushEvents,
\* clearEventQueue and createLink fails with NOT_INITIALIZED and changes
\* nothing: no registration, no invocation, no queue or storage change, no
\* request; the only steps that change any of these while the flag is unset
\* are those of initialize and reset.
C20_GuardedWhileUninitialized ==
    [][ ~sdkInit =>
          /\ sdkOps' = sdkOps => UNCHANGED Observable
          /\ (sdkOps' # sdkOps /\ sdkLast'.method \in GuardedMethods) =>
                /\ sdkLast'.error = "NOT_INITIALIZED"
                /\ sdkLast'.requests = 0
                /\ UNCHANGED <<Observable, SdkFields, qvars, nvars, avars, lvars>>
      ]_vars

\* after an initialize and a reset, trackEvent was refused
C20_Witness ==
    /\ sdkLast.method = "trackEvent"
    /\ sdkLast.error = "NOT_INITIALIZED"
    /\ sdkLast.resets >= 1
    /\ handlerGen >= 1
    /\ ~sdkInit

----------------------------------------------------------------------------
(* Guards and failures of the tracker (SpecTracker) *)

\* a name that is empty or consists of whitespace only
Blank(name) == \A i \in 1..Len(name) : name[i] \in Whitespace

\* a trackEvent or trackRevenue call that a guard refused
Refused ==
    /\ last.op \in {"trackEvent", "trackRevenue"}
    /\ last.outcome \in {"INVALID_EVENT_DATA", "NOT_INITIALIZED"}

\* C22: trackEvent with an empty or all-whitespace name fails with
\* INVALID_EVENT_DATA, trackRevenue with a negative amount fails with
\* INVALID_EVENT_DATA, and trackEvent with a proper name but no cached
\* install id fails with NOT_INITIALIZED; a refused call attempts no send
\* and leaves the queue, its loaded flag and its document as they were.
C22_InvalidCallsRefused ==
    /\ \A name \in Names, id \in InstallIds, first \in {"ok"} \cup SendErrors :
        LET r == TrackEvent(QS, id, name, NoData, clock, first, NoFailure,
                            TRUE, TRUE)
        IN /\ Blank(name) =>
                r.outcome = "INVALID_EVENT_DATA" /\ r.attempts = <<>> /\ r.s = QS
           /\ (~Blank(name) /\ id \in {NullId, ""}) =>
                r.outcome = "NOT_INITIALIZED" /\ r.attempts = <<>> /\ r.s = QS
           /\ (~Blank(name) /\ id \notin {NullId, ""}) =>
                r.outcome \notin {"INVALID_EVENT_DATA", "NOT_INITIALIZED"}
    /\ \A amount \in Amounts, id \in InstallIds :
        LET r == TrackRevenue(QS, id, amount, "USD", clock, "ok", NoFailure,
                              TRUE, TRUE)
        IN amount < 0 =>
                r.outcome = "INVALID_EVENT_DATA" /\ r.attempts = <<>> /\ r.s = QS
    /\ Refused =>
        /\ last.attempts = <<>>
        /\ last.sentNow = <<>>
        /\ queue = last.pre
        /\ stored = last.preStored
        /\ loaded = last.preLoaded

\* a call was refused for want of an install id while records were queued
C22_Witness ==
    /\ last.op = "trackEvent"
    /\ last.outcome = "NOT_INITIALIZED"
    /\ queue # <<>>
    /\ queue = last.pre

\* a trackEvent or trackRevenue call whose own send was rejected
SendFailed ==
    /\ last.op \in {"trackEvent", "trackRevenue"}
    /\ last.outcome \in SendErrors

\* C23: when the send of the new record fails, the call fails with the
\* failure the transport gave, that send is the only one attempted, and when
\* the call has settled the record is counted in the queue: with room, the
\* queue is the queue the call found followed by the record.
C23_FailedSendQueuedThenRethrown ==
    /\ \A name \in Names, first \in SendErrors :
        LET r == TrackEvent(QS, "install-1", name, NoData, clock, first,
                            NoFailure, TRUE, TRUE)
            found == Load(QS, TRUE).queue
        IN ~Blank(name) =>
            /\ r.outcome = first
            /\ r.attempts = <<r.ev>>
            /\ Len(found) < MAX_QUEUE_SIZE =>
                    r.s.queue = Append(found, r.ev)
    /\ SendFailed =>
        /\ last.attempts = <<last.ev>>
        /\ last.sentNow = <<>>
        /\ Len(last.pre) < MAX_QUEUE_SIZE =>
            /\ queue = Append(last.pre, last.ev)
            /\ Len(queue) = Len(last.pre) + 1

\* a send failed with INVALID_RESPONSE on a queue that had records and room
C23_Witness ==
    /\ SendFailed
    /\ last.outcome = "INVALID_RESPONSE"
    /\ last.pre # <<>>
    /\ Len(last.pre) < MAX_QUEUE_SIZE
    /\ Len(queue) = Len(last.pre) + 1

\* a trackEvent or trackRevenue call whose own send succeeded
SendSucceeded ==
    /\ last.op \in {"trackEvent", "trackRevenue"}
    /\ last.outcome \notin {"INVALID_EVENT_DATA", "NOT_INITIALIZED"} \cup SendErrors

\* C24: when the send of the new record succeeds the queue is flushed, and
\* whether or not a send of that flush fails the call resolves, the new
\* record is counted as sent and is not in the queue.
C24_FlushFailureNotPropagated ==
    /\ \A name \in Names, budget \in FailAfter :
        LET r == TrackEvent(QS, "install-1", name, NoData, clock, "ok",
                            budget, TRUE, TRUE)
        IN ~Blank(name) =>
            /\ r.outcome = "ok"
            /\ \A i \in 1..Len(r.s.queue) : r.s.queue[i] # r.ev
    /\ SendSucceeded =>
        /\ last.outcome = "ok"
        /\ last.attempts # <<>>
        /\ last.attempts[1] = last.ev
        /\ last.sentNow # <<>>
        /\ last.sentNow[1] = last.ev
        /\ \A i \in 1..Len(queue) : queue[i] # last.ev
        /\ Len(queue) <= Len(last.pre)
        /\ last.pre # <<>> => Len(last.attempts) >= 2

\* the send succeeded and the first send of the flush after it failed
C24_Witness ==
    /\ SendSucceeded
    /\ last.budget = 0
    /\ Len(last.attempts) = 2
    /\ Len(last.sentNow) = 1
    /\ Len(queue) = Len(last.pre)

\* C30: flushQueue comes to an end, and attempts each record it found at
\* most once and in queue order: the sends are a prefix of the queue it
\* found, at most one of them failed and that one is the last; when none
\* failed there was one send per record and the queue is empty.
C30_FlushBounded ==
    FlushSettled =>
        /\ last.outcome = "ok"
        /\ Len(last.attempts) <= Len(last.pre)
        /\ Len(last.attempts) <= Len(last.sentNow) + 1
        /\ last.attempts = SubSeq(last.pre, 1, Len(last.attempts))
        /\ last.sentNow = SubSeq(last.attempts, 1, Len(last.sentNow))
        /\ last.ret =>
            /\ last.attempts = last.pre
            /\ last.sentNow = last.pre
            /\ queue = <<>>

\* a flush of a full queue made two sends and then one that failed
C30_Witness ==
    /\ FlushSettled
    /\ Len(last.pre) = MAX_QUEUE_SIZE
    /\ Len(last.attempts) = 3
    /\ Len(last.sentNow) = 2
    /\ Len(queue) = MAX_QUEUE_SIZE - 2

----------------------------------------------------------------------------
(* The life cycle of the facade and clearData (SpecSdk) *)

\* this step is a call of initialize
InitializeCalled ==
    /\ sdkOps' # sdkOps
    /\ sdkLast'.method = "initialize"
    /\ sdkLast'.step = "call"

\* this step is a call of reset
ResetCalled ==
    /\ sdkOps' # sdkOps
    /\ sdkLast'.method = "reset"

\* C21: initialize on an initialized SDK fails with ALREADY_INITIALIZED and
\* leaves the configuration, the managers and both registries as they were;
\* initialize with a configuration validateConfig refuses leaves the SDK
\* uninitialized; reset leaves the SDK uninitialized, and an initialize call
\* that is the first one since the last reset is not refused as
\* ALREADY_INITIALIZED.
C21_TwoStateMachine ==
    [][ /\ (sdkInit /\ InitializeCalled) =>
              /\ sdkLast'.error = "ALREADY_INITIALIZED"
              /\ UNCHANGED <<SdkFields, deferredCallbacks, deepLinkCallbacks>>
        /\ (InitializeCalled /\ sdkLast'.error = "INVALID_CONFIGURATION") =>
              /\ ~sdkInit'
              /\ UNCHANGED SdkFields
        /\ ResetCalled => ~sdkInit'
        /\ (InitializeCalled /\ sdkLast.accepted = 0) =>
              sdkLast'.error # "ALREADY_INITIALIZED"
      ]_vars

\* the facade call recorded in sdkLast is the last thing that happened
JustSettled(method) ==
    /\ sdkLast.method = method
    /\ sdkLast.seq = sdkOps
    /\ sdkLast.at = <<linkOps, steps>>

\* the first await of a clearData call on a facade with managers was reached
AttributionCleared ==
    /\ JustSettled("clearData")
    /\ sdkLast.step = "call"
    /\ attrLast.op = "clearData"
    /\ last.op = "clearAll"

\* C25 as stated: the persisted queue document is also what it was
C25_EventQueueUntouched ==
    AttributionCleared =>
        /\ stInstallId = NullId
        /\ stInstallData = NoLinkDoc
        /\ ~stLaunched
        /\ stored = last.preStored
        /\ queue = last.pre

\* C25: the attribution manager's clearData removes the persisted install
\* id, cached link data and launch flag, and with them the persisted event
\* queue document; the in-memory queue of the tracker and its loaded flag
\* are what they were.
C25_ClearDataRemovesQueueDocument ==
    AttributionCleared =>
        /\ stInstallId = NullId
        /\ stInstallData = NoLinkDoc
        /\ ~stLaunched
        /\ stored = NoDoc
        /\ queue = last.pre
        /\ loaded = last.preLoaded

\* clearData ran on a facade whose queue held a persisted record
C25_Witness ==
    /\ AttributionCleared
    /\ last.preStored.kind = "json"
    /\ last.preStored.val # <<>>
    /\ queue # <<>>
    /\ attrLast.pre.launched

\* a clearData call made on an initialized facade with nothing else in
\* flight has settled, and nothing else ran meanwhile
ClearDataSettled ==
    /\ JustSettled("clearData")
    /\ sdkLast.step = "resume"
    /\ sdkLast.error = "none"
    /\ sdkLast.alone

\* C26: after clearData has settled on an initialized SDK, getInstallId and
\* getInstallData return null, isFirstLaunch returns true, queuedEventCount
\* is 0 and the persisted queue holds no record, both registries are empty
\* and the latch is unset, and the SDK is still initialized.
C26_ClearDataClearsAll ==
    ClearDataSettled =>
        /\ stInstallId = NullId
        /\ GetInstallData(Storage, TRUE) = NullLink
        /\ IsFirstLaunch(Storage)
        /\ Len(queue) = 0
        /\ stored \in {NoDoc, Stringify(<<>>)}
        /\ deferredCallbacks = <<>>
        /\ deepLinkCallbacks = <<>>
        /\ ~deferredDelivered
        /\ cachedDeferredData = NullLink
        /\ sdkInit

\* clearData settled on a facade that had an install id, a queued record
\* and a registered direct callback
C26_Witness ==
    /\ ClearDataSettled
    /\ attrLast.op = "clearData"
    /\ attrLast.pre.installId # NullId
    /\ last.op = "clearQueue"
    /\ last.pre # <<>>
    /\ linkLast.preDirect # <<>>

----------------------------------------------------------------------------
(* SpecOverlap: one EventQueue whose calls may overlap.  An action is the  *)
(* code of a call between two awaits; AsyncStorage reads and writes the    *)
(* document when getItem / setItem is called.  enqLog holds the records    *)
(* enqueue accepted that no dequeue or clear has taken out since.          *)

\* getItem rejected
ReadRejected == [kind |-> "rejected", val |-> <<>>]

\* what load() makes of the queue q once getItem has settled with json:
\* a rejection and a document that does not parse end in the catch block,
\* a missing document leaves the queue alone
Loaded(q, json) ==
    IF json.kind \in {"rejected", "corrupt"} THEN <<>>
    ELSE IF json.kind = "none" THEN q
    ELSE json.val

\* a step of the instance, as recorded in last
Step(op, outcome) ==
    [NoCall EXCEPT !.op = op, !.outcome = outcome, !.pre = queue,
                   !.preStored = stored, !.preLoaded = loaded]

\* a call of load, peek, enqueue or dequeue up to the await inside load():
\* on a loaded instance load returns at once, otherwise getItem is called
Begin(op, ev) ==
    /\ steps' = steps + 1
    /\ IF loaded
       THEN /\ ops' = Append(ops, [op |-> op, pc |-> "loaded", json |-> NoDoc,
                                   ev |-> ev])
            /\ UNCHANGED <<reads, readFailed, faults>>
       ELSE \E readOk \in ReadChoices :
            /\ ops' = Append(ops, [op |-> op, pc |-> "reading",
                                   json |-> IF readOk THEN stored
                                            ELSE ReadRejected,
                                   ev |-> ev])
            /\ reads' = reads + 1
            /\ readFailed' = (readFailed \/ ~readOk)
            /\ faults' = IF readOk THEN faults ELSE faults + 1
    /\ last' = Step(op, "called")
    /\ clock' = IF op = "enqueue" THEN clock + 1 ELSE clock
    /\ UNCHANGED <<queue, loaded, stored, cachedInstallId, base, enqLog,
                   deqLog, writeFailed, cleared, sent, nvars, avars, lvars,
                   svars>>

\* queue.load()
CallLoad ==
    steps < MaxOverlap /\ Begin("load", NoEvent)

\* queue.peek()
CallPeek ==
    steps < MaxOverlap /\ Begin("peek", NoEvent)

\* queue.enqueue(event)
CallEnqueue ==
    steps < MaxOverlap /\ Begin("enqueue", Probe)

\* queue.dequeue()
CallDequeue ==
    steps < MaxOverlap /\ Begin("dequeue", NoEvent)

\* queue.clear(): it does not load; the queue is emptied and setItem called
CallClear ==
    /\ steps < MaxOverlap
    /\ steps' = steps + 1
    /\ \E writeOk \in WriteChoices :
        /\ stored' = Persist([QS EXCEPT !.queue = <<>>], writeOk).stored
        /\ writeFailed' = (writeFailed \/ ~writeOk)
        /\ faults' = IF writeOk THEN faults ELSE faults + 1
    /\ queue' = <<>>
    /\ ops' = Append(ops, [op |-> "clear", pc |-> "writing", json |-> NoDoc,
                           ev |-> NoEvent])
    /\ last' = Step("clear", "called")
    /\ cleared' = [done |-> TRUE, val |-> stored.val]
    /\ enqLog' = <<>>
    /\ UNCHANGED <<loaded, cachedInstallId, clock, base, deqLog,
                   reads, readFailed, sent, nvars, avars, lvars, svars>>

\* getItem settles and load() runs to its end: the queue is replaced by
\* what was read and only now is the instance marked loaded
LoadResumes ==
    \E i \in 1..Len(ops) :
        /\ ops[i].pc = "reading"
        /\ queue' = Loaded(queue, ops[i].json)
        /\ loaded' = TRUE
        /\ ops' = IF ops[i].op = "load" THEN Without(ops, i)
                  ELSE [ops EXCEPT ![i].pc = "loaded"]
        /\ last' = Step("loadResumes", ops[i].json.kind)
        /\ UNCHANGED <<stored, cachedInstallId, clock, base, enqLog, deqLog,
                       steps, faults, reads, readFailed, writeFailed, cleared,
                       sent, nvars, avars, lvars, svars>>

\* whether the call o returns after load without writing
ReturnsEarly(o) ==
    \/ o.op \in {"load", "peek"}
    \/ o.op = "enqueue" /\ Len(queue) >= MAX_QUEUE_SIZE
    \/ o.op = "dequeue" /\ Len(queue) = 0

\* a call goes on after await this.load(): peek returns, enqueue pushes and
\* dequeue shifts, and both call setItem through persist
AfterLoad ==
    \E i \in 1..Len(ops) :
        LET o == ops[i] IN
        /\ o.pc = "loaded"
        /\ IF ReturnsEarly(o)
           THEN /\ ops' = Without(ops, i)
                /\ UNCHANGED <<queue, stored, writeFailed, faults, enqLog>>
           ELSE \E writeOk \in WriteChoices :
                /\ queue' = IF o.op = "enqueue" THEN Append(queue, o.ev)
                            ELSE Tail(queue)
                /\ stored' = Persist([QS EXCEPT !.queue = queue'], writeOk).stored
                /\ writeFailed' = (writeFailed \/ ~writeOk)
                /\ faults' = IF writeOk THEN faults ELSE faults + 1
                /\ enqLog' = IF o.op = "enqueue" THEN Append(enqLog, o.ev)
                             ELSE SelectSeq(enqLog, LAMBDA e : e # Head(queue))
                /\ ops' = [ops EXCEPT ![i].pc = "writing"]
        /\ last' = Step(o.op, "afterLoad")
        /\ UNCHANGED <<loaded, cachedInstallId, clock, base, deqLog, cleared,
                       steps, reads, readFailed, sent, nvars, avars, lvars,
                       svars>>

\* setItem settles and the call returns
WriteSettles ==
    \E i \in 1..Len(ops) :
        /\ ops[i].pc = "writing"
        /\ ops' = Without(ops, i)
        /\ last' = Step(ops[i].op, "returned")
        /\ UNCHANGED <<queue, loaded, stored, cachedInstallId, clock, base,
                       enqLog, deqLog, steps, faults, reads, readFailed,
                       writeFailed, cleared, sent, nvars, avars, lvars, svars>>

InitOverlap ==
    /\ InitQueue
    /\ cachedInstallId = "install-1"
    /\ OverlapIdle
    /\ NetIdle
    /\ LinkIdle
    /\ SdkIdle
    /\ AttrIdle

NextOverlap ==
    \/ CallLoad
    \/ CallPeek
    \/ CallEnqueue
    \/ CallDequeue
    \/ CallClear
    \/ LoadResumes
    \/ AfterLoad
    \/ WriteSettles

SpecOverlap == InitOverlap /\ [][NextOverlap]_vars

----------------------------------------------------------------------------
(* Overlapping calls on the queue (SpecOverlap) *)

\* what a new instance over the same storage finds when it loads
Reloaded ==
    Load([queue |-> <<>>, loaded |-> FALSE, stored |-> stored], TRUE).queue

\* no call is in flight on the instance
Quiet == ops = <<>>

\* C27: whenever no call is in flight on an instance that has loaded, and no
\* read or write of its document has failed, the persisted document holds
\* the records of the in-memory queue in the same order: a new instance
\* that loads from the same storage gets the same queue.
C27_PersistedEqualsMemory ==
    (Quiet /\ loaded /\ ~readFailed /\ ~writeFailed) => Reloaded = queue

\* C28: the instance calls getItem at most once, however its load, enqueue,
\* dequeue and peek calls overlap; a load that finds no document or one that
\* does not parse, or whose getItem is rejected, leaves the queue empty.
C28_LoadsAtMostOnce ==
    /\ reads <= 1
    /\ (last.op = "loadResumes"
          /\ last.outcome \in {"none", "corrupt", "rejected"}) =>
        queue = <<>>

----------------------------------------------------------------------------
(* Order and independence of the callback loops (SpecLink) *)

\* the invocations of the last operation that belong to one loop
Round(phase) == SelectSeq(NewCalls, LAMBDA c : c.phase = phase)

\* round is a run over the registry regs from its first registration on, one
\* invocation per registration, which stops short only behind a callback
\* that throws
RunsOver(round, regs, kind) ==
    /\ Len(round) <= Len(regs)
    /\ \A i \in 1..Len(round) :
          /\ round[i].reg = regs[i].reg
          /\ round[i].fn = regs[i].fn
          /\ round[i].kind = kind
          /\ i < Len(round) => ~Throws(round[i].fn)
    /\ Len(round) < Len(regs) =>
          (round # <<>> /\ Throws(round[Len(round)].fn))

----------------------------------------------------------------------------
(* The deferred delivery of initialize (SpecSdk) *)

\* the invocations made since the handler was created or last cleared
EpochCalls == SubSeq(calls, clearedAt.calls + 1, Len(calls))

\* how often the registration reg of the deferred registry was invoked
TimesInvoked(reg) ==
    Cardinality({j \in 1..Len(calls) :
                    calls[j].kind = "deferred" /\ calls[j].reg = reg})

\* the handler has made its delivery and no callback threw in it, so the
\* initialize that made it resolved
DeliveredCleanly ==
    /\ deferredDelivered
    /\ \A j \in 1..Len(EpochCalls) :
          EpochCalls[j].phase = "deliver" => ~Throws(EpochCalls[j].fn)

\* initialize has just made its deferred delivery
InitializeDelivered ==
    /\ JustSettled("initialize")
    /\ sdkLast.step = "resume"
    /\ sdkLast.error \in {"none", "callback threw"}
    /\ linkLast.op = "deliverDeferredDeepLink"

\* C32: initialize makes its deferred delivery once, on a handler that has
\* not delivered before and after reportInstall has returned, with the link
\* data of an attributed result that carries link data and with null
\* otherwise; once an initialize has resolved, every callback in the
\* deferred registry has been invoked exactly once, by the delivery or at
\* its registration, and before the delivery none has been invoked.
C32_OneDeferredDelivery ==
    /\ InitializeDelivered =>
          /\ ~linkLast.preDelivered
          /\ attrLast.op = "reportInstall"
          /\ linkLast.data =
                IF attrLast.result.attributed
                   /\ attrLast.result.deepLinkData # NullLink
                THEN attrLast.result.deepLinkData
                ELSE NullLink
          /\ cachedDeferredData = linkLast.data
    /\ \A i \in 1..Len(deferredCallbacks) :
          /\ DeliveredCleanly => TimesInvoked(deferredCallbacks[i].reg) = 1
          /\ ~deferredDelivered => TimesInvoked(deferredCallbacks[i].reg) = 0

\* an attributed initialize resolved with one callback registered before
\* its delivery and one after it, each invoked once with the link data
C32_Witness ==
    /\ DeliveredCleanly
    /\ cachedDeferredData # NullLink
    /\ Len(deferredCallbacks) = 2
    /\ \E j \in 1..Len(EpochCalls) :
          /\ EpochCalls[j].phase = "deliver"
          /\ EpochCalls[j].reg = deferredCallbacks[1].reg
          /\ EpochCalls[j].data = cachedDeferredData
    /\ \E j \in 1..Len(EpochCalls) :
          /\ EpochCalls[j].phase = "register"
          /\ EpochCalls[j].reg = deferredCallbacks[2].reg
          /\ EpochCalls[j].data = cachedDeferredData

----------------------------------------------------------------------------
(* Calls that overlap the first load (SpecOverlap) *)

\* the record r is in the sequence q
In(r, q) == \E i \in 1..Len(q) : q[i] = r

\* C33: once every call has settled and no write has failed, every record
\* enqueue accepted (and no dequeue or clear took out since) is in the
\* in-memory queue and in the persisted one, and after a clear the queue
\* holds none of the records the document held when clear was called.
C33_OverlapNotUndone ==
    (Quiet /\ ~writeFailed) =>
        /\ \A i \in 1..Len(enqLog) :
              In(enqLog[i], queue) /\ In(enqLog[i], Reloaded)
        /\ cleared.done =>
              \A i \in 1..Len(cleared.val) : ~In(cleared.val[i], queue)

----------------------------------------------------------------------------
(* SpecFlush: one EventTracker whose trackEvent and flushQueue calls may   *)
(* overlap, over a queue it was handed loaded or not.  An action is the    *)
(* code of a call between two awaits; the await of persist is not a step   *)
(* of its own, since nothing a call does when it resumes from it reads the *)
(* queue.  Writes and reads of AsyncStorage succeed.                       *)

\* the queues a tracker finds persisted
FlushLens == {0, 1, 2, MAX_QUEUE_SIZE - 1, MAX_QUEUE_SIZE}

\* what this specification leaves alone
FlushFrame ==
    UNCHANGED <<cachedInstallId, base, enqLog, deqLog, faults, readFailed,
                writeFailed, cleared, nvars, avars, lvars, svars>>

\* the call o enters EventQueue.load(): on a loaded queue it goes on at pc
\* there, otherwise getItem is called and it waits at pc wait
EnterLoad(o, there, wait) ==
    IF loaded THEN [o EXCEPT !.pc = there]
    ELSE [o EXCEPT !.pc = wait, !.json = stored]

\* while (!this.queue.isEmpty) { const event = await this.queue.dequeue()
LoopTest(o) ==
    IF Len(queue) = 0 THEN [o EXCEPT !.pc = "done"]
    ELSE [o EXCEPT !.pc = "dequeuing"]

\* the calls in flight once the i-th one has gone on as o
Going(i, o) == IF o.pc = "done" THEN Without(ops, i) ELSE [ops EXCEPT ![i] = o]

\* what a step records in last: the flushQueue run that returned in it, with
\* the records it took off the queue, or the trackEvent that rejected
Returned(o) ==
    IF o.pc # "done" THEN NoCall
    ELSE IF o.flushing
    THEN [NoCall EXCEPT !.op = "flushQueue", !.attempts = o.took]
    ELSE [NoCall EXCEPT !.op = "trackEvent", !.ev = o.ev]

\* trackEvent(name) with a proper name and an install id, up to the await
\* of sendEvent
TrackCall ==
    /\ steps < MaxFlushCalls
    /\ steps' = steps + 1
    /\ ops' = Append(ops, [op |-> "trackEvent", pc |-> "sending",
                           json |-> NoDoc, ev |-> Probe, took |-> <<>>,
                           flushing |-> FALSE])
    /\ clock' = clock + 1
    /\ last' = NoCall
    /\ UNCHANGED <<queue, loaded, stored, reads, sent>>
    /\ FlushFrame

\* flushQueue() up to the await inside queue.load()
FlushCall ==
    /\ steps < MaxFlushCalls
    /\ steps' = steps + 1
    /\ ops' = Append(ops, EnterLoad([op |-> "flushQueue", pc |-> "called",
                                     json |-> NoDoc, ev |-> NoEvent,
                                     took |-> <<>>, flushing |-> TRUE],
                                    "started", "reading"))
    /\ reads' = IF loaded THEN reads ELSE reads + 1
    /\ last' = NoCall
    /\ UNCHANGED <<queue, loaded, stored, clock, sent>>
    /\ FlushFrame

\* getItem settles and load() runs to its end
LoadReturns ==
    \E i \in 1..Len(ops) :
        /\ ops[i].pc \in {"reading", "enqReading"}
        /\ queue' = Loaded(queue, ops[i].json)
        /\ loaded' = TRUE
        /\ ops' = [ops EXCEPT ![i].pc = IF ops[i].pc = "reading" THEN "started"
                                        ELSE "enqueuing"]
        /\ last' = NoCall
        /\ UNCHANGED <<stored, clock, steps, reads, sent>>
        /\ FlushFrame

\* flushQueue goes on after await this.queue.load(): the first loop test
FlushTest ==
    \E i \in 1..Len(ops) :
        /\ ops[i].pc = "started"
        /\ ops' = Going(i, LoopTest(ops[i]))
        /\ last' = Returned(LoopTest(ops[i]))
        /\ UNCHANGED <<queue, loaded, stored, clock, steps, reads, sent>>
        /\ FlushFrame

\* dequeue() goes on after its await this.load(): null on an empty queue
\* (the loop breaks), otherwise the head is shifted, the queue persisted
\* and the record handed to sendEvent
FlushDequeue ==
    \E i \in 1..Len(ops) :
        LET d == Dequeue(QS, TRUE, TRUE)
            o == IF d.found
                 THEN [ops[i] EXCEPT !.pc = "flushSending", !.ev = d.ev,
                                     !.took = Append(@, d.ev)]
                 ELSE [ops[i] EXCEPT !.pc = "done"]
        IN
        /\ ops[i].pc = "dequeuing"
        /\ queue' = d.s.queue
        /\ stored' = d.s.stored
        /\ ops' = Going(i, o)
        /\ last' = Returned(o)
        /\ UNCHANGED <<loaded, clock, steps, reads, sent>>
        /\ FlushFrame

\* a sendEvent settles.  trackEvent: after a send that succeeded flushQueue
\* is entered, after one that failed queue.enqueue(event).  flushQueue:
\* after a success the loop is tested again, after a failure
\* queue.enqueue(event) is entered
SendSettles ==
    \E i \in 1..Len(ops) :
    \E ok \in (IF Len(sent) < MaxSent THEN BOOLEAN ELSE {FALSE}) :
        LET o == IF ops[i].pc = "sending"
                 THEN IF ok
                      THEN EnterLoad([ops[i] EXCEPT !.flushing = TRUE],
                                     "started", "reading")
                      ELSE EnterLoad(ops[i], "enqueuing", "enqReading")
                 ELSE IF ok THEN LoopTest(ops[i])
                      ELSE EnterLoad(ops[i], "requeuing", "enqReading")
        IN
        /\ ops[i].pc \in {"sending", "flushSending"}
        /\ sent' = IF ok THEN Append(sent, ops[i].ev) ELSE sent
        /\ reads' = IF o.pc \in {"reading", "enqReading"} THEN reads + 1
                    ELSE reads
        /\ ops' = Going(i, o)
        /\ last' = Returned(o)
        /\ UNCHANGED <<queue, loaded, stored, clock, steps>>
        /\ FlushFrame

\* enqueue(event) goes on after its await this.load(): false on a full
\* queue, otherwise the record is pushed and the queue persisted; neither
\* caller looks at the result, trackEvent rethrows and flushQueue returns
EnqueueReturns ==
    \E i \in 1..Len(ops) :
        LET e == Enqueue(QS, ops[i].ev, TRUE, TRUE)
            o == [ops[i] EXCEPT !.pc = "done"]
        IN
        /\ ops[i].pc \in {"enqueuing", "requeuing"}
        /\ queue' = e.s.queue
        /\ stored' = e.s.stored
        /\ ops' = Going(i, o)
        /\ last' = Returned(o)
        /\ UNCHANGED <<loaded, clock, steps, reads, sent>>
        /\ FlushFrame

InitFlush ==
    /\ \E n \in FlushLens :
        /\ stored = Stringify(OldQueue(n))
        /\ loaded \in BOOLEAN
        /\ queue = IF loaded THEN OldQueue(n) ELSE <<>>
    /\ cachedInstallId = "install-1"
    /\ clock = MAX_QUEUE_SIZE + 1
    /\ last = NoCall
    /\ base = <<>>
    /\ enqLog = <<>>
    /\ deqLog = <<>>
    /\ steps = 0
    /\ faults = 0
    /\ OverlapIdle
    /\ NetIdle
    /\ LinkIdle
    /\ SdkIdle
    /\ AttrIdle

NextFlush ==
    \/ TrackCall
    \/ FlushCall
    \/ LoadReturns
    \/ FlushTest
    \/ FlushDequeue
    \/ SendSettles
    \/ EnqueueReturns

SpecFlush == InitFlush /\ [][NextFlush]_vars

----------------------------------------------------------------------------
(* Overlapping flushes (SpecFlush) *)

\* no record occurs twice in q
NoDuplicate(q) == \A i, j \in 1..Len(q) : q[i] = q[j] => i = j

\* the records the flushQueue runs in flight hold: dequeued and neither
\* sent nor put back yet
Held ==
    [i \in 1..Len(ops) |->
        IF ops[i].pc \in {"flushSending", "requeuing"} THEN <<ops[i].ev>>
        ELSE <<>>]

\* C34: when a flushQueue run returns, every record it took off the queue
\* has been sent successfully or is in the queue again.
C34_FlushLosesNothing ==
    last.op = "flushQueue" =>
        \A i \in 1..Len(last.attempts) :
            In(last.attempts[i], sent) \/ In(last.attempts[i], queue)

\* C35: no record is held by two flushQueue runs at a time, no record is
\* sent successfully twice, and no record is in the queue twice.
C35_OneFlushPerRecord ==
    /\ \A i, j \in 1..Len(ops) :
          (i # j /\ Held[i] # <<>>) => Held[i] # Held[j]
    /\ NoDuplicate(sent)
    /\ NoDuplicate(queue)

----------------------------------------------------------------------------
(* A first-launch report that failed (SpecSdk) *)

\* the first-launch report made on this storage failed, and clearData has
\* not removed the launch flag since
FailedFirst == firstCall.op = "reportInstall" /\ firstCall.out = RequestThrows

\* this step is a reportInstall that settles
LaunchStep == launches' = launches + 1

\* this step is a trackEvent that settles
TrackStep == steps' = steps + 1 /\ last'.op = "trackEvent"

\* C36: once the first-launch report has failed, and until clearData removes
\* the launch flag, the flag stays set and no install id is persisted; every
\* later reportInstall on the storage issues no request and returns the
\* cached response with installId ''; every trackEvent fails, with
\* NOT_INITIALIZED when its name is not blank, and leaves the queue and its
\* document as they were, nothing sent.
C36_FailedReportNotRetried ==
    /\ [](FailedFirst =>
            /\ stLaunched
            /\ stInstallId = NullId
            /\ \A name \in Names, first \in {"ok"} \cup SendErrors :
                LET r == TrackEvent(QS, cachedInstallId, name, NoData, clock,
                                    first, NoFailure, TRUE, TRUE)
                IN /\ r.outcome = IF Blank(name) THEN "INVALID_EVENT_DATA"
                                  ELSE "NOT_INITIALIZED"
                   /\ r.attempts = <<>>
                   /\ r.s = QS)
    /\ [][FailedFirst =>
            /\ LaunchStep =>
                /\ posts' = posts
                /\ attrLast'.posts = 0
                /\ attrLast'.result.installId = ""
                /\ attrLast'.result = BuildCachedResponse(Storage, TRUE)
            /\ TrackStep =>
                /\ last'.outcome \in {"NOT_INITIALIZED", "INVALID_EVENT_DATA"}
                /\ last'.attempts = <<>>
                /\ queue' = queue
                /\ stored' = stored]_vars

\* the statement with every trackEvent after the failed report failing
\* with NOT_INITIALIZED, whatever its name
C36_AlwaysNotInitialized ==
    /\ C36_FailedReportNotRetried
    /\ [][(FailedFirst /\ TrackStep) => last'.outcome = "NOT_INITIALIZED"]_vars

\* a second launch after the failed first report took the repeat path
C36_Witness ==
    /\ FailedFirst
    /\ launches >= 2
    /\ attrLast.op = "reportInstall"
    /\ attrLast.pre.launched
    /\ attrLast.posts = 0
    /\ attrLast.result.installId = ""

----------------------------------------------------------------------------
(* SpecInit: the facade with initialize calls that overlap.  An action is  *)
(* the code of initialize between two awaits, reportInstall included; the  *)
(* awaits of the writes that follow a settled install report are taken     *)
(* together.  No callback is registered and no URL handled here, so a      *)
(* deferred delivery invokes nothing and only sets the latch of the        *)
(* handler it is made on; of the handlers only the one the facade holds    *)
(* has its fields in the state.                                            *)

\* initialize(config) up to await eventQueue.load(): the guard,
\* validateConfig, this.config = config
InitCall ==
    /\ sdkLast.calls < MaxInits
    /\ \E config \in Configs :
        IF sdkInit
        THEN /\ sdkLast' = SdkCall("initialize", "ALREADY_INITIALIZED")
             /\ UNCHANGED <<sdkConfig, inits>>
        ELSE IF ~ValidateConfig(config)
        THEN /\ sdkLast' = SdkCall("initialize", "INVALID_CONFIGURATION")
             /\ UNCHANGED <<sdkConfig, inits>>
        ELSE /\ sdkConfig' = config
             /\ inits' = Append(inits, [pc |-> "loading", gen |-> 0,
                                        first |-> FALSE])
             /\ sdkLast' = [SdkCall("initialize", "pending") EXCEPT
                                !.accepted = sdkLast.accepted + 1]
    /\ sdkOps' = sdkOps + 1
    /\ UNCHANGED <<sdkInit, sdkNetwork, sdkAttribution, sdkHandler, sdkTracker,
                   clearing, handlerGen, listeners, qvars, nvars, rvars, avars,
                   lvars>>

\* initialize after eventQueue.load(): the managers and a new handler are
\* stored, the flag is set, and reportInstall is called, which reads the
\* launch flag
InitLoaded ==
    /\ \E i \in 1..Len(inits) :
        /\ inits[i].pc = "loading"
        /\ inits' = [inits EXCEPT ![i] = [pc |-> "checking",
                                          gen |-> handlerGen + 1,
                                          first |-> IsFirstLaunch(Storage)]]
    /\ LET s == Load([queue |-> <<>>, loaded |-> FALSE, stored |-> stored], TRUE)
       IN /\ queue' = s.queue
          /\ loaded' = s.loaded
          /\ base' = s.queue
          /\ last' = [NoCall EXCEPT !.op = "load", !.pre = s.queue,
                                    !.preStored = stored]
    /\ sdkNetwork' = TRUE
    /\ sdkAttribution' = TRUE
    /\ sdkTracker' = TRUE
    /\ sdkHandler' = TRUE
    /\ sdkInit' = TRUE
    /\ handlerGen' = handlerGen + 1
    /\ deferredDelivered' = FALSE
    /\ cachedDeferredData' = NullLink
    /\ linkLast' = LinkOp("new")
    /\ sdkLast' = SdkResume("initialize", "pending")
    /\ sdkOps' = sdkOps + 1
    /\ UNCHANGED <<sdkConfig, clearing, listeners, deferredCallbacks,
                   deepLinkCallbacks, pending, calls, nextReg, clearedAt,
                   linkOps, stored, cachedInstallId, clock, enqLog, deqLog,
                   steps, faults, nvars, rvars, avars>>

\* reportInstall after await this.storage.isFirstLaunch(): on a first launch
\* the fingerprint is collected and the POST issued, otherwise
\* buildCachedResponse starts reading
InitChecked ==
    /\ \E i \in 1..Len(inits) :
        /\ inits[i].pc = "checking"
        /\ inits' = [inits EXCEPT ![i].pc = IF inits[i].first THEN "posting"
                                            ELSE "cached"]
        /\ posts' = IF inits[i].first THEN posts + 1 ELSE posts
        /\ collects' = IF inits[i].first THEN collects + 1 ELSE collects
    /\ sdkLast' = SdkResume("initialize", "pending")
    /\ sdkOps' = sdkOps + 1
    /\ UNCHANGED <<sdkInit, sdkConfig, sdkNetwork, sdkAttribution, sdkHandler,
                   sdkTracker, clearing, handlerGen, listeners, stInstallId,
                   stInstallData, stLaunched, attrLast, firstCall, launches,
                   qvars, nvars, rvars, lvars>>

\* the POST or the cached reads settle: reportInstall writes what it
\* caches and returns, initialize makes the deferred delivery on the
\* handler it created, starts listening on it and returns
InitReported ==
    /\ \E i \in 1..Len(inits), out \in SdkInstallOutcomes :
        LET pre == [Storage EXCEPT !.launched = ~inits[i].first]
            r == ReportInstall(pre, out, TRUE, TRUE)
            data == DeferredPayload(r.result)
        IN
        /\ inits[i].pc \in {"posting", "cached"}
        /\ inits[i].pc = "cached" => out = RequestThrows
        /\ inits' = Without(inits, i)
        /\ stInstallId' = r.st.installId
        /\ stInstallData' = r.st.installData
        /\ stLaunched' = r.st.launched
        /\ cachedInstallId' = r.st.installId
        /\ attrLast' = [op |-> "reportInstall", pre |-> pre, out |-> out,
                        readOk |-> TRUE, saveOk |-> TRUE,
                        result |-> r.result, posts |-> r.posts,
                        collects |-> r.collects]
        /\ firstCall' = IF inits[i].first THEN attrLast' ELSE firstCall
        /\ IF inits[i].gen = handlerGen /\ sdkHandler
           THEN /\ cachedDeferredData' = data
                /\ deferredDelivered' = TRUE
                /\ linkLast' = [LinkOp("deliverDeferredDeepLink") EXCEPT
                                    !.data = data]
           ELSE UNCHANGED <<cachedDeferredData, deferredDelivered, linkLast>>
        /\ listeners' = listeners \cup {inits[i].gen}
        /\ sdkLast' = SdkResume("initialize", "none")
    /\ launches' = launches + 1
    /\ sdkOps' = sdkOps + 1
    /\ UNCHANGED <<sdkInit, sdkConfig, sdkNetwork, sdkAttribution, sdkHandler,
                   sdkTracker, clearing, handlerGen, posts, collects,
                   deferredCallbacks, deepLinkCallbacks, pending, calls,
                   nextReg, clearedAt, linkOps, queue, loaded, stored, clock,
                   last, base, enqLog, deqLog, steps, faults, nvars, rvars>>

\* reset()
ResetCall ==
    /\ sdkLast.calls < MaxInits
    /\ IF sdkHandler
       THEN /\ listeners' = listeners \ {handlerGen}
            /\ deferredDelivered' = ClearedLatch
            /\ cachedDeferredData' = NullLink
            /\ clearedAt' = [reg |-> nextReg, calls |-> Len(calls)]
            /\ linkLast' = LinkOp("clearCallbacks")
       ELSE UNCHANGED <<listeners, deferredDelivered, cachedDeferredData,
                        clearedAt, linkLast>>
    /\ sdkConfig' = NullConfig
    /\ sdkNetwork' = FALSE
    /\ sdkAttribution' = FALSE
    /\ sdkHandler' = FALSE
    /\ sdkTracker' = FALSE
    /\ sdkInit' = FALSE
    /\ sdkLast' = [SdkCall("reset", "none") EXCEPT
                        !.resets = sdkLast.resets + 1, !.accepted = 0]
    /\ sdkOps' = sdkOps + 1
    /\ UNCHANGED <<inits, clearing, handlerGen, deferredCallbacks,
                   deepLinkCallbacks, pending, calls, nextReg, linkOps, qvars,
                   nvars, rvars, avars>>

InitInit ==
    /\ InitSdk
    /\ stored = NoDoc

NextInit ==
    \/ InitCall
    \/ InitLoaded
    \/ InitChecked
    \/ InitReported
    \/ ResetCall

SpecInit == InitInit /\ [][NextInit]_vars

----------------------------------------------------------------------------
(* Overlapping initialize calls (SpecInit) *)

\* C37: until the first reset, at most one initialize call is accepted, at
\* most one install report is posted, and at most one handler and one URL
\* subscription are created.
C37_OneInitializeAtATime ==
    sdkLast.resets = 0 =>
        /\ sdkLast.accepted <= 1
        /\ posts <= 1
        /\ handlerGen <= 1
        /\ Cardinality(listeners) <= 1

----------------------------------------------------------------------------
(* Direct deep links are not kept (SpecLink) *)

\* this step is a handleUrl call
HandleStep == linkOps' = linkOps + 1 /\ linkLast'.op = "handleDeepLink"

\* the invocations this step added
Added == SubSeq(calls', Len(calls) + 1, Len(calls'))

\* C38: a URL handled while no direct callback is registered leaves nothing
\* behind: no invocation, no resolution in flight, no change to the
\* registries or the latch.  Registering a direct callback invokes nothing,
\* and every direct invocation is made by the handleUrl call of its URL or
\* by a resolution that call started, which a call on an empty registry
\* never does.
C38_DirectNotBuffered ==
    [][/\ (HandleStep /\ deepLinkCallbacks = <<>>) =>
            /\ calls' = calls
            /\ pending' = pending
            /\ UNCHANGED <<deferredCallbacks, deepLinkCallbacks,
                           deferredDelivered, cachedDeferredData>>
       /\ linkLast'.op = "onDeepLink" => calls' = calls
       /\ Len(pending') > Len(pending) =>
            /\ HandleStep
            /\ deepLinkCallbacks # <<>>
       /\ \A k \in 1..Len(Added) :
            Added[k].kind = "direct" =>
                /\ Added[k].url = linkLast'.url
                /\ Added[k].h = linkLast'.h
                /\ \/ HandleStep /\ deepLinkCallbacks # <<>>
                   \/ /\ linkLast'.op = "settle"
                      /\ \E i \in 1..Len(pending) : pending[i].h = Added[k].h
      ]_vars

\* a URL was handled and dropped while the deferred payload was latched
C38_Witness ==
    /\ linkLast.op = "handleDeepLink"
    /\ linkLast.url # EmptyUrl
    /\ linkLast.preDirect = <<>>
    /\ NewCalls = <<>>
    /\ pending = <<>>
    /\ deferredDelivered
    /\ cachedDeferredData # NullLink

----------------------------------------------------------------------------
(* Who receives a resolved URL (SpecLink) *)

\* the registration numbers in a sequence of registrations or invocations
RegsOf(q) == {q[i].reg : i \in 1..Len(q)}

\* C39: when a resolution settles, its handlers run over the direct
\* callbacks registered at that moment, in registration order and up to the
\* first one that throws: all of them when none throws, none when the
\* registry is empty by then, never one that is no longer registered, and
\* every invocation carries the URL of the resolution.
C39_RecipientsAtSettle ==
    linkLast.op = "settle" =>
        /\ RunsOver(Round("then"), linkLast.preDirect, "direct")
        /\ RegsOf(NewCalls) \subseteq RegsOf(linkLast.preDirect)
        /\ ~LoopThrows(linkLast.preDirect) =>
              /\ RegsOf(NewCalls) = RegsOf(linkLast.preDirect)
              /\ Len(NewCalls) = Len(linkLast.preDirect)
        /\ linkLast.preDirect = <<>> => NewCalls = <<>>
        /\ \A i \in 1..Len(NewCalls) :
              /\ NewCalls[i].url = linkLast.url
              /\ NewCalls[i].h = linkLast.h

\* the statement with exactly the callbacks registered at that moment
\* invoked, whatever they do
C39_ExactlyTheRegistered ==
    linkLast.op = "settle" => RegsOf(NewCalls) = RegsOf(linkLast.preDirect)

\* a resolution settled and invoked a callback that was registered while it
\* was in flight
C39_Witness ==
    /\ linkLast.op = "settle"
    /\ ~LoopThrows(linkLast.preDirect)
    /\ \E i \in 1..Len(NewCalls) : NewCalls[i].reg >= linkLast.regs

----------------------------------------------------------------------------
(* The order of direct deliveries (SpecLink) *)

\* C40: a callback is invoked for the URLs in the order they were handled:
\* of two direct invocations of one registration, the earlier one belongs
\* to the handleUrl call made first.
C40_DeliveredInHandlingOrder ==
    \A i, j \in 1..Len(calls) :
        (/\ i < j
         /\ calls[i].kind = "direct"
         /\ calls[j].kind = "direct"
         /\ calls[i].reg = calls[j].reg) => calls[i].h <= calls[j].h

====
